---- MODULE Spec2Model ----
(***************************************************************************)
(* Model of the cms-blog-ai scheduler core:                                *)
(*   tasks/post_tasks.py   generate_post_for_agent, process_agent_schedules,*)
(*                         publish_scheduled_posts                          *)
(*   tasks/celery_app.py   retry / beat configuration                       *)
(*   api/posts.py          post status operations                           *)
(*   api/schedules.py      schedule operations                              *)
(*   models/schedule.py    INTERVAL_CRON_MAP, get_cron_expression           *)
(*                                                                         *)
(* Time is counted in seconds from 00:00 UTC of day 0.  Day 0 is a Monday  *)
(* and the first day of a month; the month before it has 31 days.          *)
(***************************************************************************)
EXTENDS Integers, Sequences, FiniteSets, TLC

VARIABLES
    now,        \* the clock (datetime.utcnow()), in seconds
    agents,     \* agents table: agent id -> row
    schedules,  \* schedule_configs table: row id -> row or NULL
    posts,      \* posts table: row id -> row or NULL
    jobs,       \* generate_post_for_agent task instances
    delayLog,   \* history: the countdowns of each job's retries, in order
    faults,     \* history: failures of the Completion Service and the store so far
    queue,      \* generation queue: agent id -> number of messages sent by the sweep
    sweepLog,   \* what the last process_agent_schedules run did and returned
    ticks,      \* publish_scheduled_posts task instances
    reqs        \* HTTP requests in progress (api/schedules.py)

vars == <<now, agents, schedules, posts, jobs, delayLog, faults, queue, sweepLog, ticks, reqs>>

tables == <<agents, schedules, posts>>

NULL == "NULL"

Agents == {"a1", "a2"}

ScheduleIds == {"s1", "s2"}

Jobs == {1, 2}

\* A nullable DateTime column that holds NULL.
NoTime == 0 - 1

\* models/agent.py Agent: the columns the scheduler reads.
AgentRow(active, cron) == [exists |-> TRUE, is_active |-> active, schedule_cron |-> cron]

\* A schedule_configs row id with no row.
NoSchedule ==
    [exists |-> FALSE, agent_id |-> NULL, interval |-> NULL, publish_hour |-> 0,
     is_active |-> FALSE, total_posts_generated |-> 0, successful_posts |-> 0,
     failed_posts |-> 0, last_run_at |-> NoTime, auto_publish |-> FALSE]

\* models/schedule.py ScheduleConfig: a new row with the column defaults.
ScheduleConfig(agent_id, interval, publish_hour) ==
    [exists |-> TRUE, agent_id |-> agent_id, interval |-> interval,
     publish_hour |-> publish_hour, is_active |-> TRUE,
     total_posts_generated |-> 0, successful_posts |-> 0, failed_posts |-> 0,
     last_run_at |-> NoTime, auto_publish |-> TRUE]

\* models/post.py Post: the workflow columns and the generated content.
Post(agent_id, content, status, scheduled_at, published_at) ==
    [agent_id |-> agent_id, content |-> content, status |-> status,
     scheduled_at |-> scheduled_at, published_at |-> published_at]

NoPosts == <<>>
NoTicks == <<>>
NoReqs == <<>>

----------------------------------------------------------------------------
(* Calendar and cron evaluation (croniter over the 5-field expressions)     *)

SecondsPerMinute == 60
SecondsPerHour == 60 * SecondsPerMinute
SecondsPerDay == 24 * SecondsPerHour

\* Days the model's clock may run over (days 0 .. MaxDay).
MaxDay == 1

\* How far back get_prev looks for a matching day; every template of
\* INTERVAL_CRON_MAP fires at least once in any 31 consecutive days.
LookBackDays == 31

\* Day of month of day d (day 0 is the 1st; the previous month has 31 days).
DayOfMonth(d) == IF d >= 0 THEN d + 1 ELSE 32 + d

\* Day of week of day d, cron numbering (1 = Monday, 0 = Sunday); day 0 is a Monday.
DayOfWeek(d) == (d + 1 + 35) % 7

Intervals == {"daily", "every_3_days", "weekly", "biweekly"}

\* Decimal digits, and the text Python gives an int of 0..99 in str.format.
Digits == <<"0", "1", "2", "3", "4", "5", "6", "7", "8", "9">>

str(n) ==
    IF n < 10 THEN Digits[n + 1] ELSE Digits[(n \div 10) + 1] \o Digits[(n % 10) + 1]

\* The same int written with two digits ("07"), as "{hour:02d}" would.
str_two_digits(n) == Digits[(n \div 10) + 1] \o Digits[(n % 10) + 1]

\* models/schedule.py INTERVAL_CRON_MAP: the templates, as the five fields
\* "minute hour day-of-month month day-of-week" of the expression.
INTERVAL_CRON_MAP(interval) ==
    CASE interval = "daily" ->
           [minute |-> "0", hour |-> "{hour}", dom |-> "*", month |-> "*", dow |-> "*"]
      [] interval = "every_3_days" ->
           [minute |-> "0", hour |-> "{hour}", dom |-> "*/3", month |-> "*", dow |-> "*"]
      [] interval = "weekly" ->
           [minute |-> "0", hour |-> "{hour}", dom |-> "*", month |-> "*", dow |-> "1"]
      [] interval = "biweekly" ->
           [minute |-> "0", hour |-> "{hour}", dom |-> "1,15", month |-> "*", dow |-> "*"]

\* template.format(hour=...) with "{hour:02d}" semantics.
format_two_digits(template, hour) ==
    [f \in DOMAIN template |->
        IF template[f] = "{hour}" THEN str_two_digits(hour) ELSE template[f]]

\* template.format(hour=self.publish_hour): every "{hour}" becomes the decimal
\* text of the hour.
format(template, hour) ==
    [f \in DOMAIN template |-> IF template[f] = "{hour}" THEN str(hour) ELSE template[f]]

\* ScheduleConfig.get_cron_expression.  ScheduleInterval(self.interval) accepts
\* only the four intervals, all of them keys of the table, so the default of
\* .get() is never taken.
get_cron_expression(interval, hour) == format(INTERVAL_CRON_MAP(interval), hour)

\* Agent.schedule_cron is a nullable free-text column.  NoCron stands for SQL
\* NULL, BadCron for a string croniter cannot parse.
NoCron == [minute |-> NULL, hour |-> NULL, dom |-> NULL, month |-> NULL, dow |-> NULL]
BadCron == [minute |-> "post", hour |-> "every", dom |-> "other", month |-> "day", dow |-> "*"]

\* croniter's reading of a numeric field: int(text).
int(text) == CHOOSE n \in 0 .. 59 : str(n) = text \/ str_two_digits(n) = text

\* croniter's expansion of the day fields.
DomMatches(field, d) ==
    CASE field = "*" -> TRUE
      [] field = "*/3" -> (DayOfMonth(d) - 1) % 3 = 0
      [] field = "1,15" -> DayOfMonth(d) \in {1, 15}

DowMatches(field, d) ==
    CASE field = "*" -> TRUE
      [] field = "1" -> DayOfWeek(d) = 1

\* Cron day rule: both day fields restricted means either may match.
DayMatches(cron, d) ==
    IF cron.dom # "*" /\ cron.dow # "*"
    THEN DomMatches(cron.dom, d) \/ DowMatches(cron.dow, d)
    ELSE DomMatches(cron.dom, d) /\ DowMatches(cron.dow, d)

FireTime(cron, d) ==
    d * SecondsPerDay + int(cron.hour) * SecondsPerHour + int(cron.minute) * SecondsPerMinute

Max(S) == CHOOSE x \in S : \A y \in S : y <= x

DayOf(t) == t \div SecondsPerDay

\* Fire times of cron on the days get_prev can reach from time t.
FireTimes(cron, t) ==
    LET at_midnight == FireTime(cron, 0)
    IN { d * SecondsPerDay + at_midnight :
            d \in { e \in (DayOf(t) - LookBackDays) .. DayOf(t) : DayMatches(cron, e) } }

\* croniter(cron, t).get_prev(datetime): the latest fire time strictly before
\* the start time t (a start time that is itself a fire time is not returned).
get_prev(cron, t) ==
    Max({ f \in FireTimes(cron, t) : f < t })

\* config.py SCHEDULER_CHECK_INTERVAL_MINUTES
SCHEDULER_CHECK_INTERVAL_MINUTES == 5

----------------------------------------------------------------------------
(* Dispatch & Retry Engine: tasks/post_tasks.py generate_post_for_agent     *)

\* @celery_app.task(... max_retries=3)
max_retries == 3

\* tasks/celery_app.py: task_time_limit=3600, task_soft_time_limit=3000
\* (seconds an attempt may run).
task_time_limit == 3600
task_soft_time_limit == 3000

\* @celery_app.task(... retry_backoff_max=600)
retry_backoff_max == 600

\* @celery_app.task(... retry_backoff=True): int(max(1.0, float(True)))
retry_backoff == 1

\* The exceptions an attempt can raise, all subclasses of Exception:
\* the Completion Service failing, generate_post finding the content empty,
\* the store failing an execute/commit/refresh, scalar_one_or_none finding
\* two rows, calculate_keyword_density calling lower() on a keyword that is
\* no string, the worker enforcing the soft time limit.
ExceptionKinds ==
    {"ExternalServiceError", "ValueError", "PersistenceError", "MultipleResultsFound",
     "AttributeError", "SoftTimeLimitExceeded"}

\* A narrower autoretry_for, autoretry_for=(ExternalServiceError,): only Completion Service failures are retried.
autoretry_for_service_only(kind) == kind = "ExternalServiceError"

\* autoretry_for=(Exception,)
autoretry_for(kind) == kind \in ExceptionKinds

Min(a, b) == IF a <= b THEN a ELSE b

\* celery.utils.time.get_exponential_backoff_interval(factor, retries, maximum,
\* full_jitter): the countdowns it can return.  The task does not set
\* retry_jitter, so Celery's default (True) applies: the countdown is drawn by
\* random.randrange(countdown + 1).
get_exponential_backoff_interval(factor, retries, maximum, full_jitter) ==
    LET countdown == Min(maximum, factor * (2 ^ retries))
    IN IF full_jitter THEN 0 .. countdown ELSE {countdown}

\* Celery's default for a task that does not set retry_jitter.
retry_jitter == TRUE

NoSweep ==
    [runs |-> 0, at |-> 0, cron |-> <<>>, triggered |-> {}, errors |-> {},
     success |-> FALSE, agents_checked |-> 0, posts_triggered |-> 0]

\* A text of which only the lengths matter: leading whitespace, the part from
\* the first to the last non-blank character, trailing whitespace.
Text(lead, body, trail) == [lead |-> lead, body |-> body, trail |-> trail]

NoText == Text(0, 0, 0)

\* A title: its text and its length in characters.
Title(text, len) == [text |-> text, len |-> len]

NoTitle == Title(NULL, 0)

\* The local variables of one PostGenerator.generate_post call (a pipeline
\* run): the step it is at, the steps it has done and the Completion Service
\* calls it has made, in order, what it has computed so far, and the
\* exception that ended it.
NoRun ==
    [step |-> "BuildSystemPrompt", visited |-> <<>>, calls |-> <<>>,
     error |-> NULL, content |-> <<>>, title |-> NoTitle, keywords_json |-> NULL, meta_title |-> NoText, meta_description |-> NoText,
     keywords |-> <<>>, tokens_used |-> 0]

\* Lines 163-172: the dictionary generate_post returns.
AggregateResult(run) ==
    [title |-> run.title, content |-> run.content, meta_title |-> run.meta_title,
     meta_description |-> run.meta_description, keywords |-> run.keywords,
     tokens_used |-> run.tokens_used]

\* A task slot no message was delivered to yet.  elapsed: the seconds the
\* attempt has run; limit: the time limit the worker has enforced on it.
IdleJob ==
    [state |-> "none", agent_id |-> NULL, retries |-> 0, pc |-> "none",
     exc |-> NULL, loaded |-> NoSchedule, loaded_id |-> NULL,
     countdown |-> 0, failures |-> 0, run |-> NoRun,
     elapsed |-> 0, limit |-> "none"]

NoJobs == [j \in Jobs |-> IdleJob]
NoDelays == [j \in Jobs |-> <<>>]
NoSchedules == [s \in ScheduleIds |-> NoSchedule]
EmptyQueue == [a \in Agents |-> 0]

\* The row an attempt inserts is named by the attempt: <<job, request.retries>>
\* stands for the uuid4 primary key.
PostId(j) == <<j, jobs[j].retries>>

\* generation_result of this attempt: what its pipeline run returned.  A run
\* that Generate takes in one step returns a text of its own, named by the
\* attempt.
generation_result(j) ==
    IF jobs[j].run.step = "Done"
    THEN AggregateResult(jobs[j].run)
    ELSE <<"content", j, jobs[j].retries>>

\* A select without the agent_id condition: the active schedules of all agents.
ActiveSchedulesOfAnyAgent(a) ==
    { s \in ScheduleIds : schedules[s].exists /\ schedules[s].is_active }

\* A select without the is_active condition: the agent's schedules, paused or not.
SchedulesOfAgentActiveOrNot(a) ==
    { s \in ScheduleIds : schedules[s].exists /\ schedules[s].agent_id = a }

\* select(ScheduleConfig).where(agent_id == ..., is_active == True)
ActiveSchedulesOf(a) ==
    { s \in ScheduleIds : /\ schedules[s].exists
                          /\ schedules[s].agent_id = a
                          /\ schedules[s].is_active }

\* A retry that is sent again with the same request.retries.
AfterRaiseNotCountingRetries(job) ==
    { [job EXCEPT !.state = "retry", !.pc = "none", !.loaded = NoSchedule,
                  !.loaded_id = NULL, !.countdown = 0, !.exc = NULL] }

\* The task raised: Celery's autoretry wrapper and Task.retry.  The message
\* is sent again with request.retries + 1 and a countdown, unless the
\* exception is not in autoretry_for or max_retries is used up: then the task
\* ends in FAILURE.
AfterRaise(job) ==
    LET failed == [job EXCEPT !.failures = @ + 1, !.pc = "none",
                              !.loaded = NoSchedule, !.loaded_id = NULL]
    IN IF autoretry_for(job.exc) /\ job.retries < max_retries
       THEN { [failed EXCEPT !.state = "retry", !.retries = @ + 1,
                             !.countdown = d, !.exc = NULL] :
                d \in get_exponential_backoff_interval(
                         retry_backoff, job.retries, retry_backoff_max, retry_jitter) }
       ELSE { [failed EXCEPT !.state = "failed"] }

\* An exception of the given kind reaches "except Exception as e" (line 169).
ToExcept(j, kind) ==
    jobs' = [jobs EXCEPT ![j].pc = "except", ![j].exc = kind]

\* An attempt that takes up the pipeline run of the previous attempt at the
\* step it failed at, keeping what the run had computed.
BeginAttemptFromCheckpoint(job) ==
    IF agents[job.agent_id].exists /\ agents[job.agent_id].is_active
    THEN [job EXCEPT !.state = "running", !.pc = "generate", !.countdown = 0,
                     !.run = IF job.run.step = "Failed"
                             THEN [job.run EXCEPT
                                      !.step = job.run.visited[Len(job.run.visited)],
                                      !.visited = SubSeq(@, 1, Len(@) - 1),
                                      !.error = NULL]
                             ELSE NoRun,
                     !.elapsed = 0, !.limit = "none"]
    ELSE [job EXCEPT !.state = "skipped", !.pc = "none", !.countdown = 0,
                     !.run = NoRun, !.elapsed = 0, !.limit = "none"]

\* An attempt that does not look at the agent it has read.
BeginAttemptWithoutAgentCheck(job) ==
    [job EXCEPT !.state = "running", !.pc = "generate", !.countdown = 0,
                !.run = NoRun, !.elapsed = 0, !.limit = "none"]

\* Lines 84-94 of an attempt: the agent is read; a missing or inactive agent
\* ends the task with a result and no exception.
BeginAttempt(job) ==
    IF agents[job.agent_id].exists /\ agents[job.agent_id].is_active
    THEN [job EXCEPT !.state = "running", !.pc = "generate", !.countdown = 0,
                     !.run = NoRun, !.elapsed = 0, !.limit = "none"]
    ELSE [job EXCEPT !.state = "skipped", !.pc = "none", !.countdown = 0,
                     !.run = NoRun, !.elapsed = 0, !.limit = "none"]

LowestFreeJob == CHOOSE j \in Jobs : /\ jobs[j].state = "none"
                                     /\ \A k \in Jobs : jobs[k].state = "none" => j <= k

\* A worker takes a generate_post_for_agent message off the queue and starts it.
StartJob(j) ==
    /\ \E k \in Jobs : jobs[k].state = "none"
    /\ j = LowestFreeJob
    /\ \E a \in Agents :
          /\ queue[a] > 0
          /\ queue' = [queue EXCEPT ![a] = @ - 1]
          /\ jobs' = [jobs EXCEPT ![j] = BeginAttempt([IdleJob EXCEPT !.agent_id = a])]
    /\ UNCHANGED <<now, tables, sweepLog, ticks, reqs>>

\* A worker starts a retry whose countdown has run out.
StartRetry(j) ==
    /\ jobs[j].state = "retry"
    /\ jobs' = [jobs EXCEPT ![j] = BeginAttempt(jobs[j])]
    /\ UNCHANGED <<now, tables, queue, sweepLog, ticks, reqs>>

\* Line 104: post_generator.generate_post returns a result or raises.
Generate(j) ==
    /\ jobs[j].state = "running" /\ jobs[j].pc = "generate"
    /\ \/ jobs' = [jobs EXCEPT ![j].pc = "commit_post"]
       \/ ToExcept(j, "ExternalServiceError")
       \/ ToExcept(j, "ValueError")
    /\ UNCHANGED <<now, tables, queue, sweepLog, ticks, reqs>>

\* A store that keeps the row of a commit it reported as failed.
CommitPostKeptOnFailure(j) ==
    /\ jobs[j].state = "running" /\ jobs[j].pc = "commit_post"
    /\ posts' = posts @@ (PostId(j) :>
                  Post(jobs[j].agent_id, generation_result(j), "draft", NoTime, NoTime))
    /\ \/ jobs' = [jobs EXCEPT ![j].pc = "select_schedule"]
       \/ ToExcept(j, "PersistenceError")
    /\ UNCHANGED <<now, agents, schedules, queue, sweepLog, ticks, reqs>>

\* A task that creates the Post as scheduled for now when an active schedule
\* of the agent has auto_publish set.
CommitPostAutoPublished(j) ==
    /\ jobs[j].state = "running" /\ jobs[j].pc = "commit_post"
    /\ \/ /\ posts' = posts @@ (PostId(j) :>
                        IF \E s \in ActiveSchedulesOf(jobs[j].agent_id) :
                              schedules[s].auto_publish
                        THEN Post(jobs[j].agent_id, generation_result(j), "scheduled",
                                  now, NoTime)
                        ELSE Post(jobs[j].agent_id, generation_result(j), "draft",
                                  NoTime, NoTime))
          /\ jobs' = [jobs EXCEPT ![j].pc = "select_schedule"]
       \/ /\ ToExcept(j, "PersistenceError")
          /\ UNCHANGED posts
    /\ UNCHANGED <<now, agents, schedules, queue, sweepLog, ticks, reqs>>

\* Lines 126-142: db.add(new_post); await db.commit().
CommitPost(j) ==
    /\ jobs[j].state = "running" /\ jobs[j].pc = "commit_post"
    /\ \/ /\ posts' = posts @@ (PostId(j) :>
                        Post(jobs[j].agent_id, generation_result(j), "draft",
                             NoTime, NoTime))
          /\ jobs' = [jobs EXCEPT ![j].pc = "select_schedule"]
       \/ /\ ToExcept(j, "PersistenceError")
          /\ UNCHANGED posts
    /\ UNCHANGED <<now, agents, schedules, queue, sweepLog, ticks, reqs>>

\* Lines 143-152: refresh, then the agent's active schedule is read into the
\* session; without one the task returns its result.
SelectSchedule(j) ==
    /\ jobs[j].state = "running" /\ jobs[j].pc = "select_schedule"
    /\ LET found == ActiveSchedulesOf(jobs[j].agent_id)
       IN \/ /\ Cardinality(found) = 0
             /\ jobs' = [jobs EXCEPT ![j].state = "succeeded", ![j].pc = "none"]
          \/ /\ Cardinality(found) = 1
             /\ \E s \in found :
                   jobs' = [jobs EXCEPT ![j].pc = "commit_stats",
                                        ![j].loaded = schedules[s],
                                        ![j].loaded_id = s]
          \/ /\ Cardinality(found) > 1
             /\ ToExcept(j, "MultipleResultsFound")
          \/ ToExcept(j, "PersistenceError")
    /\ UNCHANGED <<now, tables, queue, sweepLog, ticks, reqs>>

\* Lines 153-157: the counters read at line 146 plus one, and the clock, are
\* written by the second commit (UPDATE ... SET the changed columns WHERE id).
CommitStats(j) ==
    /\ jobs[j].state = "running" /\ jobs[j].pc = "commit_stats"
    /\ LET s == jobs[j].loaded_id
       IN \/ /\ schedules[s].exists
             /\ schedules' = [schedules EXCEPT
                   ![s].total_posts_generated = jobs[j].loaded.total_posts_generated + 1,
                   ![s].successful_posts = jobs[j].loaded.successful_posts + 1,
                   ![s].last_run_at = now]
             /\ jobs' = [jobs EXCEPT ![j].state = "succeeded", ![j].pc = "none",
                                     ![j].loaded = NoSchedule, ![j].loaded_id = NULL]
          \/ /\ ToExcept(j, "PersistenceError")
             /\ UNCHANGED schedules
    /\ UNCHANGED <<now, agents, posts, queue, sweepLog, ticks, reqs>>

\* Lines 169-180: rollback, then the failure path reads the active schedule.
\* No row: nothing to update.  Several rows, or the store failing: the
\* exception of the read is swallowed (lines 184-185).  Then e is re-raised.
Except(j) ==
    /\ jobs[j].state = "running" /\ jobs[j].pc = "except"
    /\ LET found == ActiveSchedulesOf(jobs[j].agent_id)
       IN \/ /\ Cardinality(found) = 1
             /\ \E s \in found :
                   jobs' = [jobs EXCEPT ![j].pc = "except_commit",
                                        ![j].loaded = schedules[s],
                                        ![j].loaded_id = s]
          \/ /\ Cardinality(found) # 1
             /\ \E r \in AfterRaise(jobs[j]) : jobs' = [jobs EXCEPT ![j] = r]
          \/ \E r \in AfterRaise(jobs[j]) : jobs' = [jobs EXCEPT ![j] = r]
    /\ UNCHANGED <<now, tables, queue, sweepLog, ticks, reqs>>

\* A failure path that counts the failed attempt in total_posts_generated too.
ExceptCommitCountingTotal(j) ==
    /\ jobs[j].state = "running" /\ jobs[j].pc = "except_commit"
    /\ LET s == jobs[j].loaded_id
       IN \/ /\ schedules[s].exists
             /\ schedules' = [schedules EXCEPT
                   ![s].failed_posts = jobs[j].loaded.failed_posts + 1,
                   ![s].total_posts_generated = jobs[j].loaded.total_posts_generated + 1]
          \/ UNCHANGED schedules
    /\ \E r \in AfterRaise(jobs[j]) : jobs' = [jobs EXCEPT ![j] = r]
    /\ UNCHANGED <<now, agents, posts, queue, sweepLog, ticks, reqs>>

\* Lines 181-188: schedule.failed_posts += 1 and commit (a failing commit is
\* swallowed), then raise.
ExceptCommit(j) ==
    /\ jobs[j].state = "running" /\ jobs[j].pc = "except_commit"
    /\ LET s == jobs[j].loaded_id
       IN \/ /\ schedules[s].exists
             /\ schedules' = [schedules EXCEPT
                   ![s].failed_posts = jobs[j].loaded.failed_posts + 1]
          \/ UNCHANGED schedules
    /\ \E r \in AfterRaise(jobs[j]) : jobs' = [jobs EXCEPT ![j] = r]
    /\ UNCHANGED <<now, agents, posts, queue, sweepLog, ticks, reqs>>

\* One step of some generation task.
JobStep ==
    \E j \in Jobs :
        \/ StartJob(j)
        \/ StartRetry(j)
        \/ Generate(j)
        \/ CommitPost(j)
        \/ SelectSchedule(j)
        \/ CommitStats(j)
        \/ Except(j)
        \/ ExceptCommit(j)

\* History: the countdown of every retry Celery schedules is appended.
LogDelays ==
    delayLog' = [j \in Jobs |->
                    IF jobs'[j].state = "retry" /\ jobs[j].state # "retry"
                    THEN Append(delayLog[j], jobs'[j].countdown)
                    ELSE delayLog[j]]

\* Failures of the Completion Service and the store in one behaviour of the
\* concurrent specification.
MaxFaults == 2

\* The step of job j is one the Completion Service or the store made fail:
\* an exception other than MultipleResultsFound reached the except block, or
\* the failure path's read or commit failed and was swallowed.
FaultIn(j) ==
    \/ /\ jobs[j].pc \notin {"except", "except_commit"}
       /\ jobs'[j].pc = "except"
       /\ jobs'[j].exc # "MultipleResultsFound"
    \/ /\ jobs[j].pc = "except"
       /\ jobs'[j].pc # "except_commit"
       /\ Cardinality(ActiveSchedulesOf(jobs[j].agent_id)) = 1
    \/ /\ jobs[j].pc = "except_commit"
       /\ schedules[jobs[j].loaded_id].exists
       /\ schedules' = schedules

\* History: the failures are counted, and a behaviour has at most MaxFaults.
CountFaults ==
    /\ faults' = faults + Cardinality({ j \in Jobs : FaultIn(j) })
    /\ faults' <= MaxFaults

\* Ticks of the minute clock one behaviour runs.
MaxMinutes == 1

\* 10:00 UTC of day 0.
JobEpoch == 10 * SecondsPerHour

\* A minute passes.
Tick ==
    /\ now < JobEpoch + MaxMinutes * SecondsPerMinute
    /\ now' = now + SecondsPerMinute
    /\ UNCHANGED <<tables, jobs, delayLog, faults, queue, sweepLog, ticks, reqs>>

\* The engine's tables before any job ran: a1 is active and has schedule s1;
\* a2 may be inactive; s2 is absent, or a2's schedule, or a second active
\* schedule of a1 (two create_schedule requests that raced).
InitEngineTables ==
    /\ now = JobEpoch
    /\ \E act \in BOOLEAN :
          agents = [a \in Agents |->
                      IF a = "a1"
                      THEN AgentRow(TRUE, get_cron_expression("daily", 10))
                      ELSE AgentRow(act, NoCron)]
    /\ \E on \in BOOLEAN :
       \E second \in {NoSchedule, ScheduleConfig("a1", "daily", 10),
                       ScheduleConfig("a2", "weekly", 10)} :
          schedules = [s \in ScheduleIds |->
                         IF s = "s1"
                         THEN [ScheduleConfig("a1", "daily", 10) EXCEPT !.is_active = on]
                         ELSE second]
    /\ posts = NoPosts
    /\ jobs = NoJobs
    /\ delayLog = NoDelays
    /\ faults = 0
    /\ sweepLog = NoSweep
    /\ ticks = NoTicks
    /\ reqs = NoReqs

\* Two messages are in the queue: the tasks run concurrently.
Init ==
    /\ InitEngineTables
    /\ queue \in {[a \in Agents |-> IF a = "a1" THEN 2 ELSE 0],
                   [a \in Agents |-> 1]}

Next ==
    \/ JobStep /\ CountFaults /\ UNCHANGED delayLog
    \/ Tick

Spec == Init /\ [][Next]_vars

\* One message is in the queue; the countdowns of its retries are logged.
InitRetry ==
    /\ InitEngineTables
    /\ \E b \in Agents : queue = [a \in Agents |-> IF a = b THEN 1 ELSE 0]

NextRetry ==
    \/ JobStep /\ LogDelays /\ UNCHANGED faults
    \/ Tick

SpecRetry == InitRetry /\ [][NextRetry]_vars

----------------------------------------------------------------------------
(* Claims on the Dispatch & Retry Engine                                    *)

PostsOfJob(j) == { p \in DOMAIN posts : p[1] = j }

PostsOfAgent(a) == { p \in DOMAIN posts : posts[p].agent_id = a }

AbandonedJobsOf(a) == { j \in Jobs : jobs[j].state = "failed" /\ jobs[j].agent_id = a }

\* C2: a job that failed its first two attempts and succeeded on the third was
\* retried exactly twice, the second retry's delay is strictly greater than
\* the first's, and exactly one Post is persisted: the third attempt's.
C2_FailTwiceThenSucceedOnePostIncreasingDelays ==
    \A j \in Jobs :
        (jobs[j].state = "succeeded" /\ jobs[j].failures = 2) =>
            /\ jobs[j].retries = 2
            /\ Len(delayLog[j]) = 2
            /\ delayLog[j][2] > delayLog[j][1]
            /\ PostsOfJob(j) = {<<j, 2>>}
            /\ posts[<<j, 2>>].content = <<"content", j, 2>>

C4_FailedRunsCountAbandonedJobsOnly ==
    \A s \in ScheduleIds :
        schedules[s].exists =>
            /\ schedules[s].failed_posts
                  <= Cardinality(AbandonedJobsOf(schedules[s].agent_id))
            /\ schedules[s].total_posts_generated = schedules[s].successful_posts

\* C5: the step that ends a successful attempt for an agent with an active
\* schedule adds exactly 1 to total-runs and to successful-runs, stamps
\* last-run with the clock, leaves failed-runs alone, and the attempt's Post
\* is in the store.
C5_SuccessfulAttemptAddsOneRun ==
    [][\A j \in Jobs :
          (jobs[j].pc = "commit_stats" /\ jobs'[j].state = "succeeded") =>
              LET s == jobs[j].loaded_id
              IN /\ schedules'[s].total_posts_generated
                       = schedules[s].total_posts_generated + 1
                 /\ schedules'[s].successful_posts = schedules[s].successful_posts + 1
                 /\ schedules'[s].last_run_at = now
                 /\ schedules'[s].failed_posts = schedules[s].failed_posts
                 /\ PostId(j) \in DOMAIN posts']_vars

\* C6: for an agent with one active schedule, in every state the Posts of the
\* agent's attempts are persisted iff their increments of total-runs and
\* successful-runs are: the counters equal the number of generated Posts.
C6_PostPersistedIffStatsPersisted ==
    \A s \in ScheduleIds :
        (schedules[s].exists /\ ActiveSchedulesOf(schedules[s].agent_id) = {s}) =>
            /\ schedules[s].successful_posts
                  = Cardinality(PostsOfAgent(schedules[s].agent_id))
            /\ schedules[s].total_posts_generated
                  = Cardinality(PostsOfAgent(schedules[s].agent_id))


\* 2 to the power n.
Pow2(n) == IF n = 0 THEN 1 ELSE IF n = 1 THEN 2 ELSE IF n = 2 THEN 4 ELSE 8

\* C14: the delay before the k-th retry of a job (k = 1, 2, 3) is the base
\* delay doubled k-1 times and capped at 600 seconds: successive delays of one
\* job are strictly increasing until the cap is reached and none exceeds 600.
C14_RetryDelayDoublesUpToCap ==
    \A j \in Jobs :
        \A k \in 1 .. Len(delayLog[j]) :
            /\ delayLog[j][k] = Min(600, delayLog[j][1] * Pow2(k - 1))
            /\ delayLog[j][k] <= 600
            /\ (k > 1 /\ delayLog[j][k - 1] < 600) => delayLog[j][k] > delayLog[j][k - 1]

\* C27: every Schedule has total_posts_generated = successful_posts in every
\* reachable state: both start at 0 and every write changes both by the same
\* amount; failed_posts is counted apart from them, so the total can be less
\* than successful_posts + failed_posts.
C27_TotalRunsEqualSuccessfulRuns ==
    [][\A s \in ScheduleIds :
          /\ schedules[s].exists =>
                schedules[s].total_posts_generated = schedules[s].successful_posts
          /\ schedules'[s].exists =>
                /\ schedules'[s].total_posts_generated = schedules'[s].successful_posts
                /\ schedules'[s].total_posts_generated - schedules[s].total_posts_generated
                      = schedules'[s].successful_posts - schedules[s].successful_posts]_vars

\* A Schedule with one successful and one failed run has a total of one.
C27_Witness_TotalBelowSuccessfulPlusFailed ==
    \E s \in ScheduleIds :
        /\ schedules[s].exists
        /\ schedules[s].successful_posts = 1
        /\ schedules[s].failed_posts = 1
        /\ schedules[s].total_posts_generated = 1

\* The attempt of job j is in its failure path (lines 169-188).
InFailurePath(j) == jobs[j].state = "running" /\ jobs[j].pc \in {"except", "except_commit"}

\* C28: when the commit of an attempt's new Post fails, the attempt is rolled
\* back and leaves no Post of its own in the store (none appears during its
\* failure path either), and when the attempt ends the job is retried if it
\* has retries left and abandoned if not, as after any other failure.
C28_FailedPostCommitLeavesNoPost ==
    [][\A j \in Jobs :
          /\ (jobs[j].pc = "commit_post" /\ jobs'[j].pc = "except") =>
                /\ jobs'[j].exc = "PersistenceError"
                /\ posts' = posts
                /\ PostId(j) \notin DOMAIN posts'
          /\ InFailurePath(j) =>
                /\ PostId(j) \in DOMAIN posts' <=> PostId(j) \in DOMAIN posts
                /\ jobs'[j].state # "running" =>
                      IF jobs[j].retries < max_retries
                      THEN jobs'[j].state = "retry" /\ jobs'[j].retries = jobs[j].retries + 1
                      ELSE jobs'[j].state = "failed"]_vars

\* The Post commit of a job's first retry has failed: the attempt is in its
\* failure path and the store holds no Post of it.
C28_Witness_RetryAttemptCommitFailed ==
    \E j \in Jobs :
        /\ InFailurePath(j)
        /\ jobs[j].exc = "PersistenceError"
        /\ jobs[j].retries = 1
        /\ PostId(j) \notin DOMAIN posts

----------------------------------------------------------------------------
(* Schedule Sweep: tasks/post_tasks.py process_agent_schedules              *)

\* Sweeps one behaviour runs.
MaxSweeps == 2

\* interval_seconds = settings.SCHEDULER_CHECK_INTERVAL_MINUTES * 60
interval_seconds == SCHEDULER_CHECK_INTERVAL_MINUTES * SecondsPerMinute

\* A select without the is_active condition.
AgentsWithCron ==
    { a \in Agents : agents[a].exists /\ agents[a].schedule_cron # NoCron }

\* select(Agent).where(Agent.is_active == True, Agent.schedule_cron.is_not(None))
ScheduledAgents ==
    { a \in Agents : agents[a].exists /\ agents[a].is_active
                                      /\ agents[a].schedule_cron # NoCron }

\* croniter(agent.schedule_cron, now) raises on a string it cannot parse.
CronRaises(cron) == cron = BadCron

\* A due test with a window of one hour in place of the poll window.
IsDueWithinTheHour(cron, t) == (t - get_prev(cron, t)) < SecondsPerHour

\* (now - prev_run).total_seconds() < interval_seconds
IsDue(cron, t) == (t - get_prev(cron, t)) < interval_seconds

\* A loop without the per-agent try/except: the first croniter error ends the
\* run and nothing is dispatched.
AgentsToTriggerUnlessAnyRaises(t) ==
    IF \E a \in ScheduledAgents : CronRaises(agents[a].schedule_cron)
    THEN {}
    ELSE { a \in ScheduledAgents : IsDue(agents[a].schedule_cron, t) }

\* A sweep that holds a lease per agent: an agent with a job queued, running
\* or waiting for its retry is passed over.
AgentsToTriggerUnlessInFlight(t) ==
    { a \in ScheduledAgents :
        /\ ~CronRaises(agents[a].schedule_cron)
        /\ IsDue(agents[a].schedule_cron, t)
        /\ queue[a] = 0
        /\ \A j \in Jobs : ~(jobs[j].agent_id = a /\ jobs[j].state \in {"running", "retry"}) }

\* The agents the loop body dispatches: the try block ran to the delay() call.
AgentsToTrigger(t) ==
    { a \in ScheduledAgents : /\ ~CronRaises(agents[a].schedule_cron)
                              /\ IsDue(agents[a].schedule_cron, t) }

\* One run of the task: query, the loop over the agents, the return value.
process_agent_schedules ==
    /\ sweepLog.runs < MaxSweeps
    /\ LET checked == ScheduledAgents
           triggered == AgentsToTrigger(now)
       IN /\ queue' = [a \in Agents |->
                         IF a \in triggered THEN queue[a] + 1 ELSE queue[a]]
          /\ sweepLog' = [runs |-> sweepLog.runs + 1,
                          at |-> now,
                          cron |-> [a \in checked |-> agents[a].schedule_cron],
                          triggered |-> triggered,
                          errors |-> { a \in checked :
                                        CronRaises(agents[a].schedule_cron) },
                          success |-> TRUE,
                          agents_checked |-> Cardinality(checked),
                          posts_triggered |-> Cardinality(triggered)]
    /\ UNCHANGED <<now, tables, jobs, delayLog, faults, ticks, reqs>>

\* Offsets from a full hour at which the model's clock is read.
ClockOffsets == {-1, 0, 1, 180, 250, 299, 300, 400, 2400}

\* Hours of the day the model's schedules and clock use.
Hours == {10}

ClockTimes ==
    { t \in { d * SecondsPerDay + h * SecondsPerHour + o :
                d \in 0 .. MaxDay, h \in Hours, o \in ClockOffsets } : t >= 0 }

\* Time passes between task runs.
AdvanceClock ==
    /\ \E t \in ClockTimes : t > now /\ now' = t
    /\ UNCHANGED <<tables, jobs, delayLog, faults, queue, sweepLog, ticks, reqs>>

CronValues ==
    {NoCron, BadCron} \cup { get_cron_expression(i, h) : i \in Intervals, h \in Hours }

InitSweep ==
    /\ now \in ClockTimes
    /\ agents \in [Agents -> [exists : {TRUE}, is_active : BOOLEAN,
                               schedule_cron : CronValues]]
    /\ queue = EmptyQueue
    /\ sweepLog = NoSweep
    /\ schedules = NoSchedules
    /\ posts = NoPosts
    /\ jobs = NoJobs
    /\ delayLog = NoDelays
    /\ faults = 0
    /\ ticks = NoTicks
    /\ reqs = NoReqs

NextSweep == process_agent_schedules \/ AdvanceClock

SpecSweep == InitSweep /\ [][NextSweep]_vars

\* The specification's reading of the previous fire time: the latest fire time at or
\* before t.
MostRecentFireAtOrBefore(cron, t) ==
    Max({ f \in FireTimes(cron, t) : f <= t })

\* C1: in a sweep at time now, an agent with a well-formed cron expression is
\* judged due (a job is dispatched for it) iff now - prevFire < 300 s, prevFire
\* being the latest fire time at or before now.
C1_DueIffWithinWindowOfFireAtOrBeforeNow ==
    sweepLog.runs > 0 =>
        \A a \in DOMAIN sweepLog.cron :
            sweepLog.cron[a] # BadCron =>
                (a \in sweepLog.triggered
                    <=> sweepLog.at - MostRecentFireAtOrBefore(sweepLog.cron[a], sweepLog.at)
                            < 300)

\* A step that is one run of the sweep.
SweepRuns == sweepLog'.runs = sweepLog.runs + 1

\* The agents of the sweep's query whose cron expression cannot be parsed.
BadAgents == { a \in ScheduledAgents : agents[a].schedule_cron = BadCron }

\* C11: a malformed cron expression on one agent does not abort the sweep: the
\* sweep completes successfully, the bad agent is counted as checked and gets
\* no job, and every other eligible agent gets a job iff it is due on its own
\* cron expression, as in a sweep without the bad agent.
C11_BadCronDoesNotAbortSweep ==
    [][(SweepRuns /\ BadAgents # {}) =>
          /\ sweepLog'.success
          /\ sweepLog'.agents_checked = Cardinality(ScheduledAgents)
          /\ \A a \in BadAgents : queue'[a] = queue[a] /\ a \notin sweepLog'.triggered
          /\ \A a \in ScheduledAgents \ BadAgents :
                queue'[a] = queue[a] + (IF IsDue(agents[a].schedule_cron, now) THEN 1 ELSE 0)
          /\ sweepLog'.posts_triggered =
                Cardinality({ a \in ScheduledAgents \ BadAgents :
                                IsDue(agents[a].schedule_cron, now) })]_vars

\* A sweep met a malformed expression and still dispatched another agent.
C11_Witness_BadAgentSkippedOtherDispatched ==
    /\ sweepLog.runs > 0
    /\ sweepLog.errors # {}
    /\ sweepLog.triggered # {}
    /\ sweepLog.agents_checked = 2

\* Seconds since midnight.
TimeOfDay(t) == t % SecondsPerDay

\* The active agents whose cron expression is the one of a daily schedule with
\* publish hour 10.
DailyAtTenAgents ==
    { a \in ScheduledAgents : agents[a].schedule_cron = get_cron_expression("daily", 10) }

\* C12: with the 5-minute poll window, a sweep at 10:03 UTC enqueues exactly
\* one job for an agent whose schedule is daily with publish hour 10, and a
\* sweep at 10:40 UTC the same day enqueues none.
C12_DailyTenDueAt1003NotAt1040 ==
    [][SweepRuns =>
          \A a \in DailyAtTenAgents :
              /\ TimeOfDay(now) = 10 * SecondsPerHour + 3 * SecondsPerMinute =>
                    queue'[a] = queue[a] + 1 /\ a \in sweepLog'.triggered
              /\ TimeOfDay(now) = 10 * SecondsPerHour + 40 * SecondsPerMinute =>
                    queue'[a] = queue[a] /\ a \notin sweepLog'.triggered]_vars

\* The 10:03 sweep enqueued a1's job and the 10:40 sweep of the same day added none.
C12_Witness_OneJobAfterBothSweeps ==
    /\ sweepLog.runs = 2
    /\ sweepLog.at = 10 * SecondsPerHour + 40 * SecondsPerMinute
    /\ "a1" \in DOMAIN sweepLog.cron
    /\ sweepLog.cron["a1"] = get_cron_expression("daily", 10)
    /\ "a1" \notin sweepLog.triggered
    /\ queue["a1"] = 1

\* The agents a sweep step sends a job for.
Dispatched == { a \in Agents : queue'[a] # queue[a] }

\* C26: a sweep sends a job for an agent only if the agent is active, has a
\* cron expression and is judged due at the time of the sweep; it sends
\* exactly one job for every such agent, and posts_triggered is the number of
\* jobs sent and at most agents_checked.
C26_SweepDispatchesExactlyDueActiveAgents ==
    [][SweepRuns =>
          /\ \A a \in Agents :
                IF /\ agents[a].is_active
                   /\ agents[a].schedule_cron # NoCron
                   /\ ~CronRaises(agents[a].schedule_cron)
                   /\ IsDue(agents[a].schedule_cron, now)
                THEN queue'[a] = queue[a] + 1
                ELSE queue'[a] = queue[a]
          /\ sweepLog'.posts_triggered = Cardinality(Dispatched)
          /\ sweepLog'.posts_triggered <= sweepLog'.agents_checked]_vars

\* A sweep found a1 inactive and a2 active with the same due cron expression
\* and sent one job, for a2.
C26_Witness_InactiveDueAgentPassedOver ==
    /\ sweepLog.runs = 1
    /\ ~agents["a1"].is_active /\ agents["a2"].is_active
    /\ agents["a1"].schedule_cron = agents["a2"].schedule_cron
    /\ queue["a1"] = 0 /\ queue["a2"] = 1
    /\ sweepLog.agents_checked = 1
    /\ sweepLog.posts_triggered = 1

-----------------------------------------------------------------------------
(* tasks/post_tasks.py publish_scheduled_posts and the status operations of *)
(* api/posts.py.  A publish task reads the clock and selects its posts in   *)
(* one step and writes them at its commit in a later one; other tasks and   *)
(* requests run in between.                                                 *)

PostIds == {"p1", "p2"}

\* publish_scheduled_posts task instances that can be running at once.
Tickers == {1, 2}

\* schemas/post.py PostUpdate.status.
PostStatuses == {"draft", "scheduled", "published", "failed"}

\* The scheduled_at values requests send: a minute ago, in a minute, in an hour.
ScheduleTimes ==
    {JobEpoch - SecondsPerMinute, JobEpoch + SecondsPerMinute, JobEpoch + SecondsPerHour}

IdleTick == [pc |-> "idle", now |-> NoTime, posts |-> {}, result |-> NULL, posts_published |-> 0]

\* A query with Post.scheduled_at < now.
ReadyForPublishingStrictlyBefore(t) ==
    { p \in DOMAIN posts :
        /\ posts[p].status = "scheduled"
        /\ posts[p].scheduled_at # NoTime
        /\ posts[p].scheduled_at < t }

\* select(Post).where(Post.status == "scheduled", Post.scheduled_at <= now);
\* a NULL scheduled_at never compares true.
ReadyForPublishing(t) ==
    { p \in DOMAIN posts :
        /\ posts[p].status = "scheduled"
        /\ posts[p].scheduled_at # NoTime
        /\ posts[p].scheduled_at <= t }

\* _publish up to the select: now = datetime.utcnow() and the query.
PublishSelect(t) ==
    /\ ticks[t].pc = "idle"
    /\ ticks' = [ticks EXCEPT ![t] =
                    [pc |-> "selected", now |-> now, posts |-> ReadyForPublishing(now),
                     result |-> NULL, posts_published |-> 0]]
    /\ UNCHANGED <<now, tables, jobs, delayLog, faults, queue, sweepLog, reqs>>

\* A session that writes each post as the loop assigns it: a commit that
\* raises leaves the posts written so far.
PublishCommitPerPost(t) ==
    /\ ticks[t].pc = "selected"
    /\ \/ /\ posts' = [p \in DOMAIN posts |->
                        IF p \in ticks[t].posts
                        THEN [posts[p] EXCEPT !.status = "published",
                                              !.published_at = ticks[t].now]
                        ELSE posts[p]]
          /\ ticks' = [ticks EXCEPT ![t] =
                          [IdleTick EXCEPT !.result = "success",
                                           !.posts_published = Cardinality(ticks[t].posts)]]
       \/ /\ ticks' = [ticks EXCEPT ![t] = [IdleTick EXCEPT !.result = "raised"]]
          /\ \E written \in SUBSET ticks[t].posts :
                posts' = [p \in DOMAIN posts |->
                            IF p \in written
                            THEN [posts[p] EXCEPT !.status = "published",
                                                  !.published_at = ticks[t].now]
                            ELSE posts[p]]
    /\ UNCHANGED <<now, agents, schedules, jobs, delayLog, faults, queue, sweepLog, reqs>>

\* The loop over the selected posts and the commit: one UPDATE per selected
\* post, by primary key, of status and published_at.
PublishCommit(t) ==
    /\ ticks[t].pc = "selected"
    /\ \/ /\ posts' = [p \in DOMAIN posts |->
                        IF p \in ticks[t].posts
                        THEN [posts[p] EXCEPT !.status = "published",
                                              !.published_at = ticks[t].now]
                        ELSE posts[p]]
          /\ ticks' = [ticks EXCEPT ![t] =
                          [IdleTick EXCEPT !.result = "success",
                                           !.posts_published = Cardinality(ticks[t].posts)]]
       \/ \* the commit raises: rollback, the task fails
          /\ ticks' = [ticks EXCEPT ![t] = [IdleTick EXCEPT !.result = "raised"]]
          /\ UNCHANGED posts
    /\ UNCHANGED <<now, agents, schedules, jobs, delayLog, faults, queue, sweepLog, reqs>>

\* api/posts.py schedule_post.
schedule_post(p, at) ==
    /\ p \in DOMAIN posts
    /\ posts' = [posts EXCEPT ![p].status = "scheduled", ![p].scheduled_at = at]
    /\ UNCHANGED <<now, agents, schedules, jobs, delayLog, faults, queue, sweepLog, ticks, reqs>>

\* api/posts.py publish_post.
publish_post(p) ==
    /\ p \in DOMAIN posts
    /\ posts' = [posts EXCEPT ![p].status = "published", ![p].published_at = now]
    /\ UNCHANGED <<now, agents, schedules, jobs, delayLog, faults, queue, sweepLog, ticks, reqs>>

\* api/posts.py update_post with a status in the body.
update_post(p, status) ==
    /\ p \in DOMAIN posts
    /\ posts' = [posts EXCEPT ![p].status = status]
    /\ UNCHANGED <<now, agents, schedules, jobs, delayLog, faults, queue, sweepLog, ticks, reqs>>

\* Posts as requests have left them: drafts, posts scheduled by schedule_post,
\* posts marked failed by update_post.
InitialPosts ==
    {Post("a1", "content", "draft", NoTime, NoTime),
     Post("a1", "content", "failed", NoTime, NoTime)}
    \cup { Post("a1", "content", "scheduled", at, NoTime) : at \in ScheduleTimes }

InitPublish ==
    /\ now = JobEpoch
    /\ posts \in [PostIds -> InitialPosts]
    /\ ticks = [t \in Tickers |-> IdleTick]
    /\ agents = [a \in Agents |-> AgentRow(TRUE, NoCron)]
    /\ schedules = NoSchedules
    /\ jobs = NoJobs
    /\ delayLog = NoDelays
    /\ faults = 0
    /\ queue = EmptyQueue
    /\ sweepLog = NoSweep
    /\ reqs = NoReqs

PublishStep == \E t \in Tickers : PublishSelect(t) \/ PublishCommit(t)

\* The publish timer alone.
NextTicks == PublishStep \/ Tick

SpecTicks == InitPublish /\ [][NextTicks]_vars

\* The publish timer and the requests that write a post's status.
NextPublish ==
    \/ PublishStep
    \/ Tick
    \/ \E p \in PostIds :
        \/ \E at \in ScheduleTimes : schedule_post(p, at)
        \/ publish_post(p)
        \/ \E status \in PostStatuses : update_post(p, status)

SpecPublish == InitPublish /\ [][NextPublish]_vars

\* A step in which publish task t commits its writes.
CommitsTick(t) ==
    /\ ticks[t].pc = "selected"
    /\ ticks'[t].result = "success"

\* C7: under any interleaving of publish ticks a due scheduled post is
\* published exactly once: no tick's commit writes a post that is already
\* published, so published_at is never overwritten.
C7_PublishedExactlyOnceAcrossOverlappingTicks ==
    [][\A t \in Tickers : CommitsTick(t) =>
          \A p \in PostIds :
              posts[p].status = "published" => posts'[p] = posts[p]]_vars

\* C8: a tick that commits at time now changes exactly the posts that have
\* status scheduled and scheduled_at <= now, to published with published_at =
\* now, and leaves every other post unchanged in all fields.
C8_TickChangesExactlyDueScheduledPosts ==
    [][\A t \in Tickers : CommitsTick(t) =>
          \A p \in PostIds :
              IF posts[p].status = "scheduled" /\ posts[p].scheduled_at <= ticks[t].now
              THEN posts'[p] = [posts[p] EXCEPT !.status = "published",
                                                !.published_at = ticks[t].now]
              ELSE posts'[p] = posts[p]]_vars

\* A step in which the commit of publish task t raises.
CommitOfTickFails(t) ==
    /\ ticks[t].pc = "selected"
    /\ ticks'[t].result = "raised"

StatusRank(status) ==
    CASE status = "draft" -> 0
      [] status = "scheduled" -> 1
      [] status = "published" -> 2
      [] OTHER -> 3

\* C9: a post's status only moves forward along draft -> scheduled ->
\* published; failed is entered only from draft and never left.
C9_StatusOnlyMovesForward ==
    [][\A p \in PostIds :
          posts'[p].status # posts[p].status =>
              /\ posts[p].status # "failed"
              /\ posts'[p].status = "failed" => posts[p].status = "draft"
              /\ posts'[p].status # "failed" =>
                    StatusRank(posts'[p].status) > StatusRank(posts[p].status)]_vars

-----------------------------------------------------------------------------
(* api/schedules.py.  create_schedule reads the agent and looks for an      *)
(* existing schedule in one step and commits the new row in a later one;    *)
(* the other handlers read and write one row and are single steps.          *)

\* create_schedule requests that can be in progress at once.
Requests == {1, 2}

IdleRequest ==
    [pc |-> "idle", agent_id |-> NULL, interval |-> NULL, publish_hour |-> 0,
     loaded_cron |-> NoCron, response |-> "none"]

\* select(ScheduleConfig).where(ScheduleConfig.agent_id == agent_id)
SchedulesOf(a) == { s \in ScheduleIds : schedules[s].exists /\ schedules[s].agent_id = a }

\* The primary key of a new row: any id that is not in the table.
FreeScheduleIds == { s \in ScheduleIds : ~schedules[s].exists }

\* The ORM writes an attribute at commit only if it differs from the loaded one.
WriteCron(a, loaded, cron) ==
    IF cron = loaded THEN agents ELSE [agents EXCEPT ![a].schedule_cron = cron]

\* create_schedule up to the existence check: the agent is loaded, then
\* scalar_one_or_none() over the agent's schedules answers 400 for one row and
\* raises MultipleResultsFound for more.
create_schedule_check(r, a, interval, hour) ==
    /\ reqs[r].pc = "idle"
    /\ agents[a].exists
    /\ reqs' = [reqs EXCEPT ![r] =
                  IF Cardinality(SchedulesOf(a)) = 0
                  THEN [pc |-> "checked", agent_id |-> a, interval |-> interval,
                        publish_hour |-> hour, loaded_cron |-> agents[a].schedule_cron,
                        response |-> "none"]
                  ELSE [IdleRequest EXCEPT !.response =
                          IF Cardinality(SchedulesOf(a)) = 1
                          THEN "400 Agent already has a schedule"
                          ELSE "500 MultipleResultsFound"]]
    /\ UNCHANGED <<now, tables, jobs, delayLog, faults, queue, sweepLog, ticks>>

\* create_schedule from the new row to the commit: INSERT of the schedule
\* and UPDATE of the agent's schedule_cron.
create_schedule_commit(r) ==
    /\ reqs[r].pc = "checked"
    /\ FreeScheduleIds # {}
    /\ LET s == IF "s1" \in FreeScheduleIds THEN "s1" ELSE "s2"
           new_schedule == ScheduleConfig(reqs[r].agent_id, reqs[r].interval,
                                          reqs[r].publish_hour)
       IN /\ schedules' = [schedules EXCEPT ![s] = new_schedule]
          /\ agents' = WriteCron(reqs[r].agent_id, reqs[r].loaded_cron,
                                 get_cron_expression(new_schedule.interval,
                                                     new_schedule.publish_hour))
    /\ reqs' = [reqs EXCEPT ![r] = [IdleRequest EXCEPT !.response = "201"]]
    /\ UNCHANGED <<now, posts, jobs, delayLog, faults, queue, sweepLog, ticks>>

\* update_schedule with interval and publish_hour in the body.
update_schedule(s, interval, hour) ==
    /\ schedules[s].exists
    /\ schedules' = [schedules EXCEPT ![s].interval = interval, ![s].publish_hour = hour]
    /\ agents' = [agents EXCEPT ![schedules[s].agent_id].schedule_cron =
                      get_cron_expression(interval, hour)]
    /\ UNCHANGED <<now, posts, jobs, delayLog, faults, queue, sweepLog, ticks, reqs>>

\* update_schedule with only is_active in the body: the agent is not touched.
update_schedule_is_active(s, active) ==
    /\ schedules[s].exists
    /\ schedules' = [schedules EXCEPT ![s].is_active = active]
    /\ UNCHANGED <<now, agents, posts, jobs, delayLog, faults, queue, sweepLog, ticks, reqs>>

activate_schedule(s) ==
    /\ schedules[s].exists
    /\ schedules' = [schedules EXCEPT ![s].is_active = TRUE]
    /\ agents' = [agents EXCEPT ![schedules[s].agent_id].schedule_cron =
                      get_cron_expression(schedules[s].interval, schedules[s].publish_hour)]
    /\ UNCHANGED <<now, posts, jobs, delayLog, faults, queue, sweepLog, ticks, reqs>>

deactivate_schedule(s) ==
    /\ schedules[s].exists
    /\ schedules' = [schedules EXCEPT ![s].is_active = FALSE]
    /\ agents' = [agents EXCEPT ![schedules[s].agent_id].schedule_cron = NoCron]
    /\ UNCHANGED <<now, posts, jobs, delayLog, faults, queue, sweepLog, ticks, reqs>>

delete_schedule(s) ==
    /\ schedules[s].exists
    /\ schedules' = [schedules EXCEPT ![s] = NoSchedule]
    /\ agents' = [agents EXCEPT ![schedules[s].agent_id].schedule_cron = NoCron]
    /\ UNCHANGED <<now, posts, jobs, delayLog, faults, queue, sweepLog, ticks, reqs>>

\* The intervals requests ask for.
RequestIntervals == {"daily", "weekly"}

InitSchedules ==
    /\ now = JobEpoch
    /\ agents = [a \in Agents |-> AgentRow(TRUE, NoCron)]
    /\ schedules = NoSchedules
    /\ reqs = [r \in Requests |-> IdleRequest]
    /\ posts = NoPosts
    /\ jobs = NoJobs
    /\ delayLog = NoDelays
    /\ faults = 0
    /\ queue = EmptyQueue
    /\ sweepLog = NoSweep
    /\ ticks = NoTicks

NextSchedules ==
    \/ \E r \in Requests :
        \/ \E a \in Agents, i \in RequestIntervals, h \in Hours :
              create_schedule_check(r, a, i, h)
        \/ create_schedule_commit(r)
    \/ \E s \in ScheduleIds :
        \/ \E i \in RequestIntervals, h \in Hours : update_schedule(s, i, h)
        \/ \E active \in BOOLEAN : update_schedule_is_active(s, active)
        \/ activate_schedule(s)
        \/ deactivate_schedule(s)
        \/ delete_schedule(s)

SpecSchedules == InitSchedules /\ [][NextSchedules]_vars

\* schemas/schedule.py ScheduleCreate.publish_hour: ge=0, le=23.
PublishHours == 0 .. 23

\* One client creating and deleting the schedule of a1, with every interval and hour.
NextCron ==
    \/ \E i \in Intervals, h \in PublishHours : create_schedule_check(1, "a1", i, h)
    \/ create_schedule_commit(1)
    \/ \E s \in ScheduleIds : delete_schedule(s)

SpecCron == InitSchedules /\ [][NextCron]_vars

\* The hours 0..23 as they are written in a cron expression.
HourText ==
    <<"0", "1", "2", "3", "4", "5", "6", "7", "8", "9", "10", "11",
      "12", "13", "14", "15", "16", "17", "18", "19", "20", "21", "22", "23">>

\* The specification's table: daily '0 H * * *', every_3_days '0 H */3 * *',
\* weekly '0 H * * 1', biweekly '0 H 1,15 * *'.
CronTable(interval, H) ==
    CASE interval = "daily" ->
           [minute |-> "0", hour |-> HourText[H + 1], dom |-> "*", month |-> "*", dow |-> "*"]
      [] interval = "every_3_days" ->
           [minute |-> "0", hour |-> HourText[H + 1], dom |-> "*/3", month |-> "*", dow |-> "*"]
      [] interval = "weekly" ->
           [minute |-> "0", hour |-> HourText[H + 1], dom |-> "*", month |-> "*", dow |-> "1"]
      [] interval = "biweekly" ->
           [minute |-> "0", hour |-> HourText[H + 1], dom |-> "1,15", month |-> "*", dow |-> "*"]

\* A step in which create_schedule request r commits.
CreatesSchedule(r) == reqs[r].pc = "checked" /\ reqs'[r].response = "201"

\* C13: for every interval and every publish hour H in 0..23 the generated
\* cron expression is exactly the table entry with H substituted, and
\* create_schedule writes that expression to the agent's cron field.
C13_CronExpressionIsTableEntry ==
    [][/\ \A i \in Intervals, H \in PublishHours : get_cron_expression(i, H) = CronTable(i, H)
       /\ \A r \in Requests : CreatesSchedule(r) =>
              agents'[reqs[r].agent_id].schedule_cron
                  = CronTable(reqs[r].interval, reqs[r].publish_hour)]_vars

\* create_schedule stored a biweekly schedule with a one-digit hour and wrote
\* '0 7 1,15 * *' to the agent.
C13_Witness_BiweeklyAtSeven ==
    /\ \E s \in SchedulesOf("a1") :
          schedules[s].interval = "biweekly" /\ schedules[s].publish_hour = 7
    /\ reqs[1].response = "201"
    /\ agents["a1"].schedule_cron =
          [minute |-> "0", hour |-> "7", dom |-> "1,15", month |-> "*", dow |-> "*"]

\* C10: in every reachable state each agent owns at most one schedule, under
\* any interleaving of create_schedule, update_schedule, activate, deactivate
\* and delete_schedule requests.
C10_AtMostOneSchedulePerAgent ==
    \A a \in Agents : Cardinality(SchedulesOf(a)) <= 1

-----------------------------------------------------------------------------
(* ai/post_generator.py PostGenerator._extract_title.  A content is a list   *)
(* of lines (the text between newlines), a line a list of tokens: tags,      *)
(* Markdown heading markers, blanks and pieces of text.                      *)

Tags == {"<h1>", "</h1>", "<h2>", "</h2>", "<p>", "</p>"}

Blanks == {" ", "\n"}

\* A piece of text of 120 characters.
LongText == "Lorem ipsum ... (120 characters)"

\* len() of a token.
TokenLen(tok) ==
    CASE tok \in {"<h1>", "<h2>"} -> 4
      [] tok \in {"</h1>", "</h2>", "</p>"} -> 5
      [] tok \in {"<p>", "Foo", "Bar", "Baz", "Qux", "## "} -> 3
      [] tok = "# " -> 2
      [] tok \in Blanks -> 1
      [] tok = "Short" -> 5
      [] tok = "Ten chars!" -> 10
      [] tok = "Hello, world" -> 12
      [] tok = LongText -> 120

RECURSIVE TextLen(_)
TextLen(toks) == IF toks = <<>> THEN 0 ELSE TokenLen(Head(toks)) + TextLen(Tail(toks))

RECURSIVE Join(_)
Join(toks) == IF toks = <<>> THEN "" ELSE Head(toks) \o Join(Tail(toks))

\* str.strip() of a token list.
RECURSIVE lstrip(_)
lstrip(toks) ==
    IF toks # <<>> /\ Head(toks) \in Blanks THEN lstrip(Tail(toks)) ELSE toks

RECURSIVE rstrip(_)
rstrip(toks) ==
    IF toks # <<>> /\ toks[Len(toks)] \in Blanks
    THEN rstrip(SubSeq(toks, 1, Len(toks) - 1))
    ELSE toks

strip(toks) == rstrip(lstrip(toks))

\* The whole content as one token list, "\n" between the lines.
RECURSIVE Flat(_)
Flat(content) ==
    IF Len(content) = 0 THEN <<>>
    ELSE IF Len(content) = 1 THEN content[1]
    ELSE content[1] \o <<"\n">> \o Flat(Tail(content))

\* content.strip().split("\n")
RECURSIVE split(_)
split(toks) ==
    IF \E i \in 1 .. Len(toks) : toks[i] = "\n"
    THEN LET i == CHOOSE k \in 1 .. Len(toks) :
                     toks[k] = "\n" /\ \A m \in 1 .. k - 1 : toks[m] # "\n"
         IN <<SubSeq(toks, 1, i - 1)>> \o split(SubSeq(toks, i + 1, Len(toks)))
    ELSE <<toks>>

\* re.search(r'<h1[^>]*>([^<]+)</h1>', content): the positions in the flat
\* content of an opening tag that is followed by at least one token without
\* "<" and then directly by the closing tag.
HeadingMatches(toks, open, close) ==
    { i \in 1 .. Len(toks) :
        /\ toks[i] = open
        /\ \E k \in i + 2 .. Len(toks) :
              /\ toks[k] = close
              /\ \A m \in i + 1 .. k - 1 : toks[m] \notin Tags }

\* match.group(1).strip() of the leftmost match.
HeadingText(toks, open, close) ==
    LET i == CHOOSE x \in HeadingMatches(toks, open, close) :
                 \A y \in HeadingMatches(toks, open, close) : x <= y
        k == CHOOSE x \in i + 2 .. Len(toks) :
                 toks[x] \in Tags /\ \A m \in i + 1 .. x - 1 : toks[m] \notin Tags
        group == strip(SubSeq(toks, i + 1, k - 1))
    IN Title(Join(group), TextLen(group))

\* The stripped line starts with the marker ("# " or "## ") and goes on.
StartsWith(line, marker) == Len(strip(line)) >= 2 /\ Head(strip(line)) = marker

\* Lines 199-204: the first line that starts with "# " or "## ", without the
\* marker.
MarkdownLines(lines) ==
    { i \in 1 .. Len(lines) : StartsWith(lines[i], "# ") \/ StartsWith(lines[i], "## ") }

MarkdownText(lines) ==
    LET i == CHOOSE x \in MarkdownLines(lines) : \A y \in MarkdownLines(lines) : x <= y
        rest == strip(Tail(strip(lines[i])))
    IN Title(Join(rest), TextLen(rest))

\* re.sub(r'<[^>]+>', '', line).strip()
clean_line(line) == strip(SelectSeq(strip(line), LAMBDA tok : tok \notin Tags))

\* Lines 207-212: the first line with more than 10 characters of text, cut to 100.
TextLines(lines) == { i \in 1 .. Len(lines) : TextLen(clean_line(lines[i])) > 10 }

\* The title carries the line's text and the length left by [:100].
FirstTextLine(lines) ==
    LET i == CHOOSE x \in TextLines(lines) : \A y \in TextLines(lines) : x <= y
    IN Title(Join(clean_line(lines[i])), Min(TextLen(clean_line(lines[i])), 100))

\* An extraction that looks for Markdown headings before HTML headings.
extract_title_markdown_first(content) ==
    LET toks == Flat(content)
        lines == split(strip(toks))
    IN IF MarkdownLines(lines) # {} THEN MarkdownText(lines)
       ELSE IF HeadingMatches(toks, "<h1>", "</h1>") # {}
            THEN HeadingText(toks, "<h1>", "</h1>")
       ELSE IF HeadingMatches(toks, "<h2>", "</h2>") # {}
            THEN HeadingText(toks, "<h2>", "</h2>")
       ELSE IF TextLines(lines) # {} THEN FirstTextLine(lines)
       ELSE Title("Untitled Post", 13)

\* PostGenerator._extract_title
extract_title(content) ==
    LET toks == Flat(content)
        lines == split(strip(toks))
    IN IF HeadingMatches(toks, "<h1>", "</h1>") # {}
       THEN HeadingText(toks, "<h1>", "</h1>")
       ELSE IF HeadingMatches(toks, "<h2>", "</h2>") # {}
            THEN HeadingText(toks, "<h2>", "</h2>")
       ELSE IF MarkdownLines(lines) # {} THEN MarkdownText(lines)
       ELSE IF TextLines(lines) # {} THEN FirstTextLine(lines)
       ELSE Title("Untitled Post", 13)

-----------------------------------------------------------------------------
(* Generation Pipeline: ai/post_generator.py PostGenerator.generate_post and *)
(* ai/claude_client.py ClaudeClient.generate_text, step by step inside one   *)
(* attempt of generate_post_for_agent.                                       *)

\* len() of a Text.
TextLength(t) == t.lead + t.body + t.trail

\* text.strip()
text_strip(t) == Text(0, t.body, 0)

\* A pipeline that trusts the Completion Service to keep to the length asked
\* for and cuts nothing.
text_unsliced(t, n) == t

\* text[:n]
text_slice(t, n) ==
    LET lead == Min(t.lead, n)
        body == Min(t.body, n - lead)
    IN Text(lead, body, Min(t.trail, n - lead - body))

\* The empty string.
EmptyContent == << <<>> >>

\* A check that takes every content for present.
content_never_missing(content) == FALSE

\* Line 114: "if not content".
content_missing(content) == content = EmptyContent

\* Texts the Completion Service returns for the content prompt.
ContentReplies ==
    {EmptyContent,
     << <<"<h1>", "Foo", "</h1>">>, <<"## ", "Bar">> >>,
     << <<"<p>", "Hello, world", "</p>">> >>}

\* Texts it returns for the meta title and meta description prompts: within
\* the length asked for, or longer and padded with whitespace.
MetaTitleReplies == {Text(0, 60, 0), Text(2, 80, 1)}
MetaDescriptionReplies == {Text(0, 150, 0), Text(1, 170, 3)}

\* Values of a parsed JSON array: a string, a number.
JsonString(text) == [type |-> "str", text |-> text]
JsonNumber(text) == [type |-> "int", text |-> text]

\* Texts it returns for the keywords prompt: a JSON array of strings, a JSON
\* array with an element that is no string, a JSON value that is no array,
\* text that is no JSON.
KeywordReplies ==
    {"[\"seo\", \"blog\"]", "[\"seo\", 42]", "{\"keywords\": \"seo\"}",
     "Sure! Here are the keywords"}

\* json.loads(text): the parsed value, or JSONDecodeError.
json_loads(text) ==
    CASE text = "[\"seo\", \"blog\"]" ->
            [type |-> "list", items |-> <<JsonString("seo"), JsonString("blog")>>]
      [] text = "[\"seo\", 42]" ->
            [type |-> "list", items |-> <<JsonString("seo"), JsonNumber("42")>>]
      [] text = "{\"keywords\": \"seo\"}" ->
            [type |-> "dict", items |-> <<JsonString("keywords")>>]
      [] OTHER -> [type |-> "JSONDecodeError", items |-> <<>>]

\* A parse that keeps whatever JSON value the reply holds.
parse_keywords_unchecked(keywords_json) == json_loads(keywords_json).items

\* Lines 144-150: json.loads(keywords_json.strip()), [] for a value that is
\* no list and for a JSONDecodeError.
parse_keywords(keywords_json) ==
    IF json_loads(keywords_json).type = "list" THEN json_loads(keywords_json).items
    ELSE <<>>

\* The run of job j is at the given step.
AtStep(j, step) ==
    /\ jobs[j].state = "running" /\ jobs[j].pc = "generate"
    /\ jobs[j].run.step = step

\* The run does the step it is at and goes on to the next one.
Advance(run, next) == [run EXCEPT !.visited = Append(@, run.step), !.step = next]

\* ClaudeClient.generate_text (lines 70-105) makes one messages.create call.
Called(run, call) == [run EXCEPT !.calls = Append(@, call)]

\* The call returned: response.usage is added up (1 stands for input_tokens +
\* output_tokens of a call).
Counted(run) == [run EXCEPT !.tokens_used = @ + 1]

\* A pipeline that wraps what the Completion Service raised in an error of
\* its own.
PipelineFailsWrapped(j, run, kind) ==
    jobs' = [jobs EXCEPT ![j].run = [Advance(run, "Failed") EXCEPT !.error = kind],
                         ![j].pc = "except", ![j].exc = "ValueError"]

\* An exception leaves generate_post: "except Exception: raise" in the client
\* (lines 103-105) and in generate_post (lines 174-176) pass it on unchanged
\* to _generate's except block.
PipelineFails(j, run, kind) ==
    jobs' = [jobs EXCEPT ![j].run = [Advance(run, "Failed") EXCEPT !.error = kind],
                         ![j].pc = "except", ![j].exc = kind]

\* A pipeline that goes on without the keywords when it has the meta fields.
PipelineSkipsKeywords(j, run, next) ==
    jobs' = [jobs EXCEPT ![j].run =
                Advance(run, IF next = "ExtractKeywords" THEN "Aggregate" ELSE next)]

\* The step is done, the run is at the next one.
PipelineGoesOn(j, run, next) ==
    jobs' = [jobs EXCEPT ![j].run = Advance(run, next)]

\* Line 104 of the task calls generate_post; lines 88-105 build the system
\* prompt and the generation prompt.
BuildSystemPrompt(j) ==
    /\ AtStep(j, "BuildSystemPrompt")
    /\ PipelineGoesOn(j, jobs[j].run, "GenerateContent")
    /\ UNCHANGED <<now, tables, queue, sweepLog, ticks, reqs>>

\* Lines 109-115: the content call; empty content raises ValueError.
GenerateContent(j) ==
    /\ AtStep(j, "GenerateContent")
    /\ LET run == Called(jobs[j].run, "content")
       IN \/ \E reply \in ContentReplies :
                LET got == [Counted(run) EXCEPT !.content = reply]
                IN IF content_missing(reply)
                   THEN PipelineFails(j, got, "ValueError")
                   ELSE PipelineGoesOn(j, got, "ExtractTitle")
          \/ PipelineFails(j, run, "ExternalServiceError")
    /\ UNCHANGED <<now, tables, queue, sweepLog, ticks, reqs>>

\* Line 118: title = self._extract_title(content).
ExtractTitle(j) ==
    /\ AtStep(j, "ExtractTitle")
    /\ PipelineGoesOn(j, [jobs[j].run EXCEPT !.title = extract_title(jobs[j].run.content)],
                      "GenerateMetaTitle")
    /\ UNCHANGED <<now, tables, queue, sweepLog, ticks, reqs>>

\* Lines 121-126: meta_title = meta_title.strip()[:70].
GenerateMetaTitle(j) ==
    /\ AtStep(j, "GenerateMetaTitle")
    /\ LET run == Called(jobs[j].run, "meta_title")
       IN \/ \E reply \in MetaTitleReplies :
                PipelineGoesOn(j, [Counted(run) EXCEPT
                                      !.meta_title = text_slice(text_strip(reply), 70)],
                               "GenerateMetaDescription")
          \/ PipelineFails(j, run, "ExternalServiceError")
    /\ UNCHANGED <<now, tables, queue, sweepLog, ticks, reqs>>

\* Lines 129-134: meta_description = meta_description.strip()[:160].
GenerateMetaDescription(j) ==
    /\ AtStep(j, "GenerateMetaDescription")
    /\ LET run == Called(jobs[j].run, "meta_description")
       IN \/ \E reply \in MetaDescriptionReplies :
                PipelineGoesOn(j, [Counted(run) EXCEPT
                                      !.meta_description = text_slice(text_strip(reply), 160)],
                               "ExtractKeywords")
          \/ PipelineFails(j, run, "ExternalServiceError")
    /\ UNCHANGED <<now, tables, queue, sweepLog, ticks, reqs>>

\* Lines 137-150: the keywords call and the parse of its reply.
ExtractKeywords(j) ==
    /\ AtStep(j, "ExtractKeywords")
    /\ LET run == Called(jobs[j].run, "keywords")
       IN \/ \E reply \in KeywordReplies :
                PipelineGoesOn(j, [Counted(run) EXCEPT !.keywords_json = reply,
                                                       !.keywords = parse_keywords(reply)],
                               "Aggregate")
          \/ PipelineFails(j, run, "ExternalServiceError")
    /\ UNCHANGED <<now, tables, queue, sweepLog, ticks, reqs>>

\* Lines 153-172: the tokens are summed and the result is returned to the task.
Aggregate(j) ==
    /\ AtStep(j, "Aggregate")
    /\ jobs' = [jobs EXCEPT ![j].run = Advance(jobs[j].run, "Done"),
                            ![j].pc = "seo_metrics"]
    /\ UNCHANGED <<now, tables, queue, sweepLog, ticks, reqs>>

\* services/seo_service.py calculate_keyword_density, lines 110-123: the
\* content without tags has no word at all.
total_words_zero(content) ==
    \A i \in 1 .. Len(content) :
        \A k \in 1 .. Len(content[i]) : content[i][k] \in Tags \cup Blanks

\* calculate_keyword_density raises AttributeError: the loop reaches
\* keyword.lower() for a keyword that is no string.
keyword_density_raises(content, keywords) ==
    /\ ~total_words_zero(content)
    /\ \E i \in 1 .. Len(keywords) : keywords[i].type # "str"

\* Lines 110-123 of the task: readability score, keyword density (only for a
\* non-empty keyword list), slug.
SeoMetrics(j) ==
    /\ jobs[j].state = "running" /\ jobs[j].pc = "seo_metrics"
    /\ IF /\ jobs[j].run.keywords # <<>>
          /\ keyword_density_raises(jobs[j].run.content, jobs[j].run.keywords)
       THEN ToExcept(j, "AttributeError")
       ELSE jobs' = [jobs EXCEPT ![j].pc = "commit_post"]
    /\ UNCHANGED <<now, tables, queue, sweepLog, ticks, reqs>>

\* One step of the generation task, its pipeline run taken step by step.
PipelineJobStep ==
    \E j \in Jobs :
        \/ StartJob(j)
        \/ StartRetry(j)
        \/ BuildSystemPrompt(j)
        \/ GenerateContent(j)
        \/ ExtractTitle(j)
        \/ GenerateMetaTitle(j)
        \/ GenerateMetaDescription(j)
        \/ ExtractKeywords(j)
        \/ Aggregate(j)
        \/ SeoMetrics(j)
        \/ CommitPost(j)
        \/ SelectSchedule(j)
        \/ CommitStats(j)
        \/ Except(j)
        \/ ExceptCommit(j)

\* One message for a1 is in the queue; a1 has one schedule, active or not.
InitPipeline ==
    /\ InitEngineTables
    /\ agents["a2"].is_active
    /\ schedules["s2"] = NoSchedule
    /\ queue = [a \in Agents |-> IF a = "a1" THEN 1 ELSE 0]

NextPipeline == PipelineJobStep /\ CountFaults /\ UNCHANGED delayLog

SpecPipeline == InitPipeline /\ [][NextPipeline]_vars

-----------------------------------------------------------------------------
(* Claims on the Generation Pipeline                                         *)

PipelineOrder ==
    <<"BuildSystemPrompt", "GenerateContent", "ExtractTitle", "GenerateMetaTitle",
      "GenerateMetaDescription", "ExtractKeywords", "Aggregate", "Done">>

FourCalls == <<"content", "meta_title", "meta_description", "keywords">>

\* The run after a step is one step further in the fixed order than before it.
NextInOrder(before, after) ==
    \E i \in 1 .. Len(PipelineOrder) - 1 :
        before.step = PipelineOrder[i] /\ after.step = PipelineOrder[i + 1]

\* A new attempt begins: generate_post is about to be called afresh.
AttemptBegins(j) == jobs[j].state \in {"none", "retry"} /\ jobs'[j].state = "running"

\* C15: a successful pipeline run visits BuildSystemPrompt, GenerateContent,
\* ExtractTitle, GenerateMetaTitle, GenerateMetaDescription, ExtractKeywords,
\* Aggregate, Done in this order and makes exactly the four Completion Service
\* calls content, meta title, meta description, keywords in this order; a run
\* never leaves a step for any step but the next one in the order or Failed.
C15_StepsInFixedOrderWithFourCalls ==
    [][\A j \in Jobs :
          LET before == jobs[j].run
              after == jobs'[j].run
          IN /\ (after.step # before.step /\ ~AttemptBegins(j)) =>
                    \/ NextInOrder(before, after)
                    \/ after.step = "Failed" /\ before.step \notin {"Done", "Failed"}
             /\ after.step = "Done" =>
                    /\ after.visited = SubSeq(PipelineOrder, 1, Len(PipelineOrder) - 1)
                    /\ after.calls = FourCalls
                    /\ after.tokens_used = Len(FourCalls)]_vars

\* A run reached Done and the attempt stored its Post.
C15_Witness_RunDoneAndPostStored ==
    \E j \in Jobs :
        /\ jobs[j].run.step = "Done"
        /\ jobs[j].state = "succeeded"
        /\ PostId(j) \in DOMAIN posts

\* The Post row the latest attempt of job j would have inserted (a job that
\* waits for its retry already carries the next attempt's number).
AttemptPost(j) ==
    IF jobs[j].state = "retry" THEN <<j, jobs[j].retries - 1>> ELSE PostId(j)

InExcept(j) == jobs[j].pc \in {"except", "except_commit"}

\* C16: when the content call returns empty text the run fails at once with
\* the validation error (ValueError): no title is extracted, no meta title,
\* meta description or keywords call is made, and the attempt stores no Post.
C16_EmptyContentFailsAtOnce ==
    \A j \in Jobs :
        jobs[j].run.content = EmptyContent =>
            /\ jobs[j].run.step = "Failed"
            /\ jobs[j].run.error = "ValueError"
            /\ InExcept(j) => jobs[j].exc = "ValueError"
            /\ jobs[j].run.visited = <<"BuildSystemPrompt", "GenerateContent">>
            /\ jobs[j].run.title = NoTitle
            /\ jobs[j].run.calls = <<"content">>
            /\ AttemptPost(j) \notin DOMAIN posts

\* An attempt got empty content and the job waits for its retry.
C16_Witness_EmptyContentThenRetry ==
    \E j \in Jobs :
        /\ jobs[j].run.content = EmptyContent
        /\ jobs[j].state = "retry"
        /\ jobs[j].failures = 1

\* The steps that call the Completion Service, and the call each makes.
CallSteps == {"GenerateContent", "GenerateMetaTitle", "GenerateMetaDescription", "ExtractKeywords"}

CallOf(step) ==
    CASE step = "GenerateContent" -> "content"
      [] step = "GenerateMetaTitle" -> "meta_title"
      [] step = "GenerateMetaDescription" -> "meta_description"
      [] step = "ExtractKeywords" -> "keywords"

\* The calls a run makes that does each visited step's call once.
RECURSIVE OneCallPerStep(_)
OneCallPerStep(visited) ==
    IF visited = <<>> THEN <<>>
    ELSE (IF Head(visited) \in CallSteps THEN <<CallOf(Head(visited))>> ELSE <<>>)
         \o OneCallPerStep(Tail(visited))

C18_RetryRestartsFromBuildSystemPrompt ==
    [][\A j \in Jobs :
          /\ (jobs[j].state = "retry" /\ jobs'[j].state = "running") =>
                jobs'[j].run = NoRun
          /\ (jobs'[j].retries > 0 /\ jobs'[j].run.step \in {"ExtractTitle", "Done"}) =>
                /\ Head(jobs'[j].run.calls) = "content"
                /\ jobs'[j].run.tokens_used = Len(jobs'[j].run.calls)
          /\ (jobs[j].pc = "commit_post" /\ PostId(j) \in DOMAIN posts') =>
                /\ jobs[j].run.calls = FourCalls
                /\ posts'[PostId(j)].content = AggregateResult(jobs[j].run)]_vars

\* The first attempt failed after its content call had returned, and the
\* retry has made the content call again.
C18_Witness_RetryRepeatedContentCall ==
    \E j \in Jobs :
        /\ jobs[j].retries = 1
        /\ jobs[j].failures = 1
        /\ jobs[j].run.step = "ExtractTitle"
        /\ jobs[j].run.calls = <<"content">>
        /\ <<j, 0>> \in DOMAIN posts

-----------------------------------------------------------------------------
(* _extract_title on its own: the function is applied to contents built from *)
(* a few lines.                                                              *)

\* Lines of a content.
MaxLines == 2

TitleLines ==
    {<<>>, <<" ">>,
     <<"<h1>", "Foo", "</h1>">>,
     <<"<h1>", " ", "Foo", " ", "</h1>">>,
     <<"<h1>", "<p>", "Foo", "</p>", "</h1>">>,
     <<"<h1>", "Qux">>, <<"</h1>">>,
     <<"<h2>", "Baz", "</h2>">>,
     <<"## ", "Bar">>, <<"# ", "Qux">>, <<" ", "## ", "Baz", " ">>,
     <<"<p>", "Hello, world", "</p>">>,
     <<"Short">>, <<"Ten chars!">>, <<LongText>>}

TitleContents ==
    {EmptyContent} \cup
    UNION { [1 .. n -> TitleLines] : n \in 1 .. MaxLines }

\* The content call of job 1 has returned a content; _extract_title is about
\* to be applied to it.
InitTitle ==
    /\ now = JobEpoch
    /\ agents = [a \in Agents |->
                   IF a = "a1" THEN AgentRow(TRUE, get_cron_expression("daily", 10))
                   ELSE AgentRow(TRUE, NoCron)]
    /\ schedules = [s \in ScheduleIds |->
                      IF s = "s1" THEN ScheduleConfig("a1", "daily", 10) ELSE NoSchedule]
    /\ posts = NoPosts
    /\ delayLog = NoDelays
    /\ faults = 0
    /\ sweepLog = NoSweep
    /\ ticks = NoTicks
    /\ reqs = NoReqs
    /\ queue = EmptyQueue
    /\ \E content \in TitleContents :
          jobs = [NoJobs EXCEPT ![1] =
                    [IdleJob EXCEPT !.state = "running", !.agent_id = "a1",
                                    !.pc = "generate",
                                    !.run = [NoRun EXCEPT
                                               !.step = "ExtractTitle",
                                               !.visited = <<"BuildSystemPrompt", "GenerateContent">>,
                                               !.calls = <<"content">>,
                                               !.tokens_used = 1,
                                               !.content = content]]]

NextTitle == (\E j \in Jobs : ExtractTitle(j)) /\ UNCHANGED <<delayLog, faults>>

SpecTitle == InitTitle /\ [][NextTitle]_vars

\* The contents of the examples.
FooAndBar == << <<"<h1>", "Foo", "</h1>">>, <<"## ", "Bar">> >>
OnlyBar == << <<"## ", "Bar">> >>

\* C19: the title is the text of the first h1 heading; if there is none, of
\* the first h2 heading; if there is none either, the first line that starts
\* with "# " or "## ", without the marker; else the first line with more than
\* 10 characters of text outside tags, cut to 100; else "Untitled Post".
\* Content with h1 Foo and a "## Bar" line gives Foo, content with only
\* "## Bar" gives Bar, empty content gives the placeholder.
C19_TitleRulesInStrictPriority ==
    \A j \in Jobs :
        jobs[j].run.step = "GenerateMetaTitle" =>
            LET content == jobs[j].run.content
                title == jobs[j].run.title
                toks == Flat(content)
                lines == split(strip(toks))
                h1 == HeadingMatches(toks, "<h1>", "</h1>") # {}
                h2 == HeadingMatches(toks, "<h2>", "</h2>") # {}
                markdown == MarkdownLines(lines) # {}
                text == TextLines(lines) # {}
            IN /\ h1 => title = HeadingText(toks, "<h1>", "</h1>")
               /\ (~h1 /\ h2) => title = HeadingText(toks, "<h2>", "</h2>")
               /\ (~h1 /\ ~h2 /\ markdown) => title = MarkdownText(lines)
               /\ (~h1 /\ ~h2 /\ ~markdown /\ text) =>
                      /\ title = FirstTextLine(lines)
                      /\ title.len <= 100
               /\ (~h1 /\ ~h2 /\ ~markdown /\ ~text) => title.text = "Untitled Post"
               /\ content = FooAndBar => title.text = "Foo"
               /\ content = OnlyBar => title.text = "Bar"
               /\ content = EmptyContent => title.text = "Untitled Post"

\* The title Foo was extracted from the content with h1 Foo and "## Bar".
C19_Witness_FooBeforeBar ==
    \E j \in Jobs :
        /\ jobs[j].run.step = "GenerateMetaTitle"
        /\ jobs[j].run.content = FooAndBar
        /\ jobs[j].run.title = Title("Foo", 3)

\* C20: whatever text the Completion Service returns, the meta title of a run
\* has at most 70 characters and its meta description at most 160, and so
\* have those of every Post a generation job has stored.
C20_MetaFieldsWithinLength ==
    /\ \A j \in Jobs :
          /\ TextLength(jobs[j].run.meta_title) <= 70
          /\ TextLength(jobs[j].run.meta_description) <= 160
    /\ \A p \in DOMAIN posts :
          /\ TextLength(posts[p].content.meta_title) <= 70
          /\ TextLength(posts[p].content.meta_description) <= 160

\* A Post is stored whose meta title and meta description were cut from
\* longer replies.
C20_Witness_StoredPostWithCutMetaFields ==
    \E p \in DOMAIN posts :
        /\ posts[p].content.meta_title = Text(0, 70, 0)
        /\ posts[p].content.meta_description = Text(0, 160, 0)

\* The keywords reply of the run is text that is no JSON, or JSON that is no
\* array.
MalformedKeywords(run) ==
    /\ run.keywords_json # NULL
    /\ json_loads(run.keywords_json).type # "list"

\* C21: when the keywords call returns text that is no JSON, or JSON that is
\* no array, the run takes the empty keyword list, raises nothing and goes on
\* to Aggregate and Done with its content, title, meta title, meta description
\* and token count as they were computed.
C21_MalformedKeywordsGiveEmptyList ==
    [][\A j \in Jobs :
          LET before == jobs[j].run
              after == jobs'[j].run
          IN MalformedKeywords(after) =>
                /\ after.keywords = <<>>
                /\ after.step \in {"Aggregate", "Done"}
                /\ after.error = NULL
                /\ after.tokens_used = Len(FourCalls)
                /\ before.step = "ExtractKeywords" =>
                      /\ after.content = before.content
                      /\ after.title = before.title
                      /\ after.meta_title = before.meta_title
                      /\ after.meta_description = before.meta_description
                /\ before.step = "Aggregate" =>
                      after = [before EXCEPT !.step = "Done",
                                             !.visited = Append(@, "Aggregate")]]_vars

\* A run whose keywords reply was no JSON ended in Done and its Post, with no
\* keywords, is stored.
C21_Witness_DoneWithoutKeywords ==
    \E j \in Jobs :
        /\ jobs[j].run.keywords_json = "Sure! Here are the keywords"
        /\ jobs[j].run.step = "Done"
        /\ PostId(j) \in DOMAIN posts
        /\ posts[PostId(j)].content.keywords = <<>>
        /\ posts[PostId(j)].content.title # NoTitle

\* C22: whatever text the keywords call returns (no JSON, JSON that is no
\* array, an array of strings, an array with an element that is no string),
\* the attempt does not fail because of it: after the pipeline run the task
\* goes on to store its Post.
C22_KeywordsNeverFailAnAttempt ==
    [][\A j \in Jobs :
          jobs[j].pc = "seo_metrics" => jobs'[j].pc \in {"seo_metrics", "commit_post"}]_vars

-----------------------------------------------------------------------------
(* The time limits of tasks/celery_app.py on an attempt of                   *)
(* generate_post_for_agent.  At task_soft_time_limit the worker raises       *)
(* SoftTimeLimitExceeded (an Exception) inside the task; at task_time_limit  *)
(* it kills the process that runs the task and records the task as failed    *)
(* with TimeLimitExceeded, outside the task and its autoretry wrapper.       *)

\* The soft limit is due for the attempt of job j and not yet enforced.
SoftLimitDue(j) ==
    /\ jobs[j].state = "running"
    /\ jobs[j].elapsed >= task_soft_time_limit
    /\ jobs[j].limit = "none"

\* The hard limit is due.
HardLimitDue(j) ==
    /\ jobs[j].state = "running"
    /\ jobs[j].elapsed >= task_time_limit

\* The attempt goes on running (a slow Completion Service call, a store that
\* does not answer) up to the next limit.
AttemptTimePasses(j) ==
    /\ jobs[j].state = "running"
    /\ ~SoftLimitDue(j) /\ ~HardLimitDue(j)
    /\ jobs' = [jobs EXCEPT ![j].elapsed =
                   IF @ < task_soft_time_limit THEN task_soft_time_limit
                   ELSE task_time_limit]
    /\ UNCHANGED <<now, tables, queue, sweepLog, ticks, reqs>>

\* SoftTimeLimitExceeded is raised where the attempt is: inside the try block
\* it reaches "except Exception" (line 169); raised in the event loop it
\* leaves the task without passing the except block; raised inside the
\* failure path it leaves the task, or is swallowed by lines 184-185.
SoftTimeLimit(j) ==
    /\ SoftLimitDue(j)
    /\ LET hit == [jobs[j] EXCEPT !.limit = "soft"]
           raised == [hit EXCEPT !.exc = "SoftTimeLimitExceeded"]
       IN \/ /\ ~InExcept(j)
             /\ jobs' = [jobs EXCEPT ![j] = [raised EXCEPT !.pc = "except"]]
          \/ \E r \in AfterRaise(raised) : jobs' = [jobs EXCEPT ![j] = r]
          \/ /\ InExcept(j)
             /\ jobs' = [jobs EXCEPT ![j] = hit]
    /\ UNCHANGED <<now, tables, queue, sweepLog, ticks, reqs>>

\* The worker kills the process of the attempt: the task is recorded as
\* failed (TimeLimitExceeded) and its message is acknowledged; Task.retry is
\* not reached, whatever request.retries is.
HardTimeLimit(j) ==
    /\ HardLimitDue(j)
    /\ jobs' = [jobs EXCEPT ![j] =
                   [@ EXCEPT !.state = "failed", !.pc = "none", !.limit = "hard",
                             !.exc = "TimeLimitExceeded", !.failures = @ + 1,
                             !.loaded = NoSchedule, !.loaded_id = NULL]]
    /\ UNCHANGED <<now, tables, queue, sweepLog, ticks, reqs>>

\* A step of a task no limit is due for.
JobStepWithinLimits ==
    /\ JobStep
    /\ \A j \in Jobs : jobs'[j] # jobs[j] => (~SoftLimitDue(j) /\ ~HardLimitDue(j))

NextCeiling ==
    /\ \/ JobStepWithinLimits
       \/ \E j \in Jobs : AttemptTimePasses(j)
       \/ \E j \in Jobs : SoftTimeLimit(j)
       \/ \E j \in Jobs : HardTimeLimit(j)
    /\ CountFaults
    /\ UNCHANGED delayLog

SpecCeiling == InitPipeline /\ [][NextCeiling]_vars

\* C23: an attempt that runs past the execution-time ceiling is aborted (none
\* runs on beyond task_time_limit), and when an attempt a time limit was
\* enforced on ends, the job is retried if it has retries left and abandoned
\* if it has none, as after any other failure.
C23_CeilingAbortIsRetriedLikeAnyFailure ==
    [][\A j \in Jobs :
          /\ jobs'[j].state = "running" => jobs'[j].elapsed <= task_time_limit
          /\ (jobs[j].state = "running" /\ jobs'[j].state # "running"
                 /\ jobs'[j].limit # "none") =>
                IF jobs[j].retries < max_retries
                THEN jobs'[j].state = "retry" /\ jobs'[j].retries = jobs[j].retries + 1
                ELSE jobs'[j].state = "failed"]_vars

-----------------------------------------------------------------------------
(* The Schedule Sweep and the generation tasks it dispatches, together.      *)

\* a1 is scheduled daily at 10:00 and it is 10:00; nothing is queued.
InitOverlap ==
    /\ InitEngineTables
    /\ ~agents["a2"].is_active
    /\ schedules["s2"] = NoSchedule
    /\ queue = EmptyQueue

NextOverlap ==
    \/ process_agent_schedules
    \/ JobStep /\ CountFaults /\ UNCHANGED delayLog
    \/ Tick

SpecOverlap == InitOverlap /\ [][NextOverlap]_vars

\* The jobs of agent a that are queued, running or waiting for a retry.
InFlight(a) ==
    queue[a] + Cardinality({ j \in Jobs : /\ jobs[j].agent_id = a
                                           /\ jobs[j].state \in {"running", "retry"} })

\* C24: a sweep dispatches a job for every agent it judges due, whether or
\* not jobs of that agent are still in flight; so two jobs of one agent can be
\* in flight at once, and each stores a Post of its own.
C24_SweepIgnoresJobsInFlight ==
    [][/\ SweepRuns =>
            \A a \in ScheduledAgents :
                (~CronRaises(agents[a].schedule_cron) /\ IsDue(agents[a].schedule_cron, now))
                    => InFlight(a)' = InFlight(a) + 1
       /\ \A j, k \in Jobs :
             (j # k /\ PostId(j) \in DOMAIN posts' /\ PostId(k) \in DOMAIN posts') =>
                 PostId(j) # PostId(k)]_vars

\* After two sweeps two jobs of a1 are running at once and each has stored
\* its Post.
C24_Witness_TwoJobsOfOneAgentEachWithPost ==
    /\ sweepLog.runs = 2
    /\ \A j \in Jobs :
          /\ jobs[j].agent_id = "a1"
          /\ jobs[j].state = "running"
          /\ jobs[j].pc \in {"select_schedule", "commit_stats"}
          /\ PostId(j) \in DOMAIN posts
    /\ Cardinality(DOMAIN posts) = 2

-----------------------------------------------------------------------------
(* Two generation tasks of different agents, run concurrently.               *)

\* One message for each agent; every agent has at most one schedule.
InitAgents ==
    /\ InitEngineTables
    /\ \A s \in ScheduleIds : schedules[s].exists => schedules[s].agent_id # "a1" \/ s = "s1"
    /\ queue = [a \in Agents |-> 1]

NextAgents ==
    \/ JobStep /\ CountFaults /\ UNCHANGED delayLog
    \/ Tick

SpecAgents == InitAgents /\ [][NextAgents]_vars

\* The jobs that take the step.
Movers == { j \in Jobs : jobs'[j] # jobs[j] }

\* The jobs of agent a whose task returned a Post.
SucceededJobsOf(a) == { j \in Jobs : jobs[j].agent_id = a /\ jobs[j].state = "succeeded" }

\* C25: jobs of different agents do not interfere, whatever the interleaving
\* of their steps: a step of a job writes only the Post of its own attempt and
\* the Schedule of its own agent, the Schedule row a job is about to update is
\* still as the job read it, and the counters of an agent's active Schedule
\* count the jobs of that agent that succeeded, as they do when the jobs run
\* one after the other.
C25_JobsOfDifferentAgentsDoNotInterfere ==
    [][/\ \A s \in ScheduleIds :
             schedules'[s] # schedules[s] =>
                 \E j \in Movers : schedules[s].agent_id = jobs[j].agent_id
       /\ \A p \in DOMAIN posts' :
             IF p \in DOMAIN posts THEN posts'[p] = posts[p]
             ELSE \E j \in Movers : p = PostId(j) /\ posts'[p].agent_id = jobs[j].agent_id
       /\ \A j \in Jobs :
             jobs'[j].pc \in {"commit_stats", "except_commit"} =>
                 /\ jobs'[j].loaded = schedules'[jobs'[j].loaded_id]
                 /\ jobs'[j].loaded.agent_id = jobs'[j].agent_id
       /\ \A s \in ScheduleIds :
             (schedules'[s].exists /\ schedules'[s].is_active) =>
                 /\ schedules'[s].successful_posts =
                        Cardinality(SucceededJobsOf(schedules[s].agent_id))'
                 /\ schedules'[s].total_posts_generated = schedules'[s].successful_posts]_vars

\* Both agents' jobs have succeeded after running side by side: each stored
\* its Post and each agent's Schedule counts one run.
C25_Witness_BothAgentsServed ==
    /\ jobs[1].state = "succeeded" /\ jobs[2].state = "succeeded"
    /\ jobs[1].agent_id # jobs[2].agent_id
    /\ PostId(1) \in DOMAIN posts /\ PostId(2) \in DOMAIN posts
    /\ schedules["s1"].successful_posts = 1
    /\ schedules["s2"].successful_posts = 1
    /\ schedules["s1"].failed_posts + schedules["s2"].failed_posts = 2

-----------------------------------------------------------------------------
(* tasks/celery_app.py beat_schedule: the publish timer next to the         *)
(* Schedule Sweep and the generation tasks.  Beat sends a                   *)
(* publish_scheduled_posts task every minute, whatever the other tasks do.  *)

\* Posts an earlier generation task (task 0) stored, which requests have
\* since scheduled or left as drafts.
EarlierPostIds == {<<0, 0>>, <<0, 1>>}

\* The earlier posts: drafts and posts scheduled a minute ago or in a minute.
EarlierPosts ==
    {Post("a1", "content", "draft", NoTime, NoTime),
     Post("a1", "content", "scheduled", JobEpoch - SecondsPerMinute, NoTime),
     Post("a1", "content", "scheduled", JobEpoch + SecondsPerMinute, NoTime)}

\* a1 is scheduled daily at 10:00 and it is 10:00; no task is running.
InitTimer ==
    /\ now = JobEpoch
    /\ agents = [a \in Agents |->
                   IF a = "a1"
                   THEN AgentRow(TRUE, get_cron_expression("daily", 10))
                   ELSE AgentRow(FALSE, NoCron)]
    /\ schedules = [s \in ScheduleIds |->
                      IF s = "s1" THEN ScheduleConfig("a1", "daily", 10) ELSE NoSchedule]
    /\ posts \in [EarlierPostIds -> EarlierPosts]
    /\ ticks = [t \in Tickers |-> IdleTick]
    /\ jobs = NoJobs
    /\ delayLog = NoDelays
    /\ faults = 0
    /\ queue = EmptyQueue
    /\ sweepLog = NoSweep
    /\ reqs = NoReqs

\* The commit of publish task t goes through.
PublishCommitSucceeds(t) == PublishCommit(t) /\ ticks'[t].result = "success"

\* One sweep and the generation task it dispatches run next to the timer;
\* the task fails at most once.
NextTimer ==
    \/ PublishStep
    \/ process_agent_schedules /\ sweepLog.runs = 0
    \/ JobStep /\ CountFaults /\ faults' <= 1 /\ jobs'[2] = jobs[2] /\ UNCHANGED delayLog
    \/ Tick

\* Publish tasks keep being sent and run, and their commits do not fail for
\* ever.  Nothing is assumed of the sweep, the generation tasks or the clock.
FairTimer ==
    \A t \in Tickers :
        /\ WF_vars(PublishSelect(t))
        /\ WF_vars(PublishCommit(t))
        /\ SF_vars(PublishCommitSucceeds(t))

SpecTimer == InitTimer /\ [][NextTimer]_vars /\ FairTimer

\* Post p is scheduled and its time has come.
DueForPublishing(p) ==
    /\ posts[p].status = "scheduled"
    /\ posts[p].scheduled_at # NoTime
    /\ posts[p].scheduled_at <= now

\* C30: while publish ticks keep occurring and their commits succeed, every
\* post that is scheduled and whose scheduled_at has passed is eventually
\* published, and it is so by the first tick that starts at or after its
\* scheduled_at and commits; the sweep and the generation tasks may run or
\* stall, no progress of theirs is needed.
C30_DueScheduledPostsAreEventuallyPublished ==
    /\ \A p \in EarlierPostIds :
          DueForPublishing(p) ~> posts[p].status = "published"
    /\ [][\A t \in Tickers : CommitsTick(t) =>
             \A p \in EarlierPostIds :
                 (/\ posts[p].status = "scheduled"
                  /\ posts[p].scheduled_at # NoTime
                  /\ posts[p].scheduled_at <= ticks[t].now)
                 => /\ posts'[p].status = "published"
                    /\ posts'[p].published_at = ticks[t].now]_vars

\* A post that was scheduled a minute ahead is published at its minute, while
\* no generation task has run and the sweep has not run either.
C30_Witness_PublishedWhileSweepAndJobsStall ==
    \E p \in EarlierPostIds :
        /\ posts[p].status = "published"
        /\ posts[p].scheduled_at = JobEpoch + SecondsPerMinute
        /\ posts[p].published_at = posts[p].scheduled_at
        /\ jobs = NoJobs
        /\ sweepLog = NoSweep

-----------------------------------------------------------------------------
(* api/agents.py: the requests that submit a generation task and that        *)
(* deactivate or delete an agent, next to the generation tasks.              *)

\* No row of the agents table: scalar_one_or_none() gives None.
NoAgent == [exists |-> FALSE, is_active |-> FALSE, schedule_cron |-> NoCron]

\* api/agents.py trigger_generation: 404 for a missing agent; is_active is not
\* looked at.  The model submits a task while a task slot is free.
trigger_generation(a) ==
    /\ agents[a].exists
    /\ queue[a] = 0
    /\ \E k \in Jobs : jobs[k].state = "none"
    /\ queue' = [queue EXCEPT ![a] = @ + 1]
    /\ UNCHANGED <<now, tables, jobs, sweepLog, ticks, reqs>>

\* api/agents.py update_agent with is_active in the body.
update_agent(a, active) ==
    /\ agents[a].exists
    /\ agents' = [agents EXCEPT ![a].is_active = active]
    /\ UNCHANGED <<now, schedules, posts, jobs, queue, sweepLog, ticks, reqs>>

\* api/agents.py delete_agent: the row goes, and with it the agent's posts and
\* schedules (cascade).  The model deletes while no attempt for the agent is
\* between its agent read and its return.
delete_agent(a) ==
    /\ agents[a].exists
    /\ \A j \in Jobs : jobs[j].agent_id = a => jobs[j].state # "running"
    /\ agents' = [agents EXCEPT ![a] = NoAgent]
    /\ schedules' = [s \in ScheduleIds |->
                       IF schedules[s].exists /\ schedules[s].agent_id = a
                       THEN NoSchedule ELSE schedules[s]]
    /\ posts' = [p \in { q \in DOMAIN posts : posts[q].agent_id # a } |-> posts[p]]
    /\ UNCHANGED <<now, jobs, queue, sweepLog, ticks, reqs>>

\* Both agents have a schedule of their own or none; nothing is queued.
InitSubmit ==
    /\ InitEngineTables
    /\ \A s \in ScheduleIds : schedules[s].exists => schedules[s].agent_id # "a1" \/ s = "s1"
    /\ queue = EmptyQueue

NextSubmit ==
    \/ JobStep /\ CountFaults /\ UNCHANGED delayLog
    \/ \E a \in Agents :
          (\/ trigger_generation(a)
           \/ \E active \in BOOLEAN : update_agent(a, active)
           \/ delete_agent(a)) /\ UNCHANGED <<delayLog, faults>>

SpecSubmit == InitSubmit /\ [][NextSubmit]_vars

\* An attempt of job j begins in this step: the task is started for a new
\* message or for a retry.
AttemptStarts(j) ==
    /\ jobs[j].state \in {"none", "retry"}
    /\ jobs'[j].state \notin {"none", "retry"}

\* C31: a job attempt that finds its agent missing or inactive ends at once
\* with the failure result and no exception: the pipeline is not run, no Post
\* is created, no Schedule changes, no failure is counted and no retry is
\* scheduled; the job stays as it ended.
C31_JobOfMissingOrInactiveAgentEndsAtOnce ==
    [][\A j \in Jobs :
          /\ (/\ AttemptStarts(j)
              /\ ~(agents[jobs'[j].agent_id].exists /\ agents[jobs'[j].agent_id].is_active))
             => /\ jobs'[j].state = "skipped"
                /\ jobs'[j].exc = NULL
                /\ jobs'[j].pc = "none"
                /\ jobs'[j].run = NoRun
                /\ jobs'[j].failures = jobs[j].failures
                /\ jobs'[j].retries = jobs[j].retries
                /\ posts' = posts
                /\ schedules' = schedules
          /\ jobs[j].state = "skipped" => jobs'[j] = jobs[j]]_vars

\* One job was skipped at its first attempt for an inactive agent that has an
\* active schedule, another at a retry because its agent was deleted after
\* the attempt before had failed.
C31_Witness_SkippedForInactiveAndForDeletedAgent ==
    \E j \in Jobs, k \in Jobs :
        /\ jobs[j].state = "skipped" /\ jobs[j].retries = 0
        /\ agents[jobs[j].agent_id].exists
        /\ ~agents[jobs[j].agent_id].is_active
        /\ ActiveSchedulesOf(jobs[j].agent_id) # {}
        /\ jobs[k].state = "skipped" /\ jobs[k].retries = 1
        /\ ~agents[jobs[k].agent_id].exists

-----------------------------------------------------------------------------
(* The generation tasks and the Schedule rows: which rows an attempt writes. *)

\* C32: a job attempt writes Schedule rows only of active Schedules of its
\* own agent.  When the agent has no active Schedule, no step of its jobs
\* changes any Schedule (total_posts_generated, successful_posts,
\* failed_posts and last_run_at stay), whether the attempt succeeds, and then
\* its Post is in the store, or fails.
C32_CountersChangeOnlyOnActiveScheduleOfTheAgent ==
    [][/\ \A s \in ScheduleIds :
             schedules'[s] # schedules[s] =>
                 /\ schedules[s].exists /\ schedules[s].is_active
                 /\ \E j \in Movers : schedules[s].agent_id = jobs[j].agent_id
       /\ \A j \in Movers :
             (jobs[j].agent_id # NULL /\ ActiveSchedulesOf(jobs[j].agent_id) = {}) =>
                 /\ schedules' = schedules
                 /\ jobs'[j].pc \notin {"commit_stats", "except_commit"}
                 /\ jobs'[j].state = "succeeded" =>
                       /\ PostId(j) \in DOMAIN posts'
                       /\ posts'[PostId(j)].agent_id = jobs[j].agent_id]_vars

\* An agent whose Schedule is paused has had one job succeed and one job
\* abandoned after its retries; its Schedule's counters are still zero.
C32_Witness_PausedScheduleUntouchedBySuccessAndFailure ==
    \E j \in Jobs, k \in Jobs, s \in ScheduleIds :
        /\ schedules[s].exists /\ ~schedules[s].is_active
        /\ jobs[j].agent_id = schedules[s].agent_id
        /\ jobs[k].agent_id = schedules[s].agent_id
        /\ ActiveSchedulesOf(schedules[s].agent_id) = {}
        /\ jobs[j].state = "succeeded" /\ PostId(j) \in DOMAIN posts
        /\ jobs[k].state = "retry" /\ jobs[k].failures = 1
        /\ schedules[s].total_posts_generated = 0
        /\ schedules[s].successful_posts = 0
        /\ schedules[s].failed_posts = 0
        /\ schedules[s].last_run_at = NoTime

-----------------------------------------------------------------------------
(* The generation task, the publish timer and api/posts.py schedule_post on  *)
(* the Posts the task stores.                                                *)

\* a1 has an active schedule with auto_publish set or not; one task is queued.
InitDrafts ==
    /\ now = JobEpoch
    /\ agents = [a \in Agents |->
                   IF a = "a1"
                   THEN AgentRow(TRUE, get_cron_expression("daily", 10))
                   ELSE AgentRow(FALSE, NoCron)]
    /\ \E auto \in BOOLEAN :
          schedules = [s \in ScheduleIds |->
                         IF s = "s1"
                         THEN [ScheduleConfig("a1", "daily", 10) EXCEPT !.auto_publish = auto]
                         ELSE NoSchedule]
    /\ posts = NoPosts
    /\ ticks = [t \in Tickers |-> IdleTick]
    /\ jobs = NoJobs
    /\ delayLog = NoDelays
    /\ faults = 0
    /\ queue = [a \in Agents |-> IF a = "a1" THEN 1 ELSE 0]
    /\ sweepLog = NoSweep
    /\ reqs = NoReqs

\* One publish task at a time; the generation task fails at most once.
NextDrafts ==
    \/ PublishStep /\ ticks'[2] = ticks[2]
    \/ JobStep /\ CountFaults /\ faults' <= 1 /\ UNCHANGED delayLog
    \/ \E p \in DOMAIN posts : \E at \in ScheduleTimes :
          schedule_post(p, at) /\ UNCHANGED <<delayLog, faults>>
    \/ Tick

SpecDrafts == InitDrafts /\ [][NextDrafts]_vars

-----------------------------------------------------------------------------
(* api/schedules.py and the agent's schedule_cron, which the sweep reads.    *)

\* C34: after any sequence of create_schedule, update_schedule,
\* activate_schedule, deactivate_schedule and delete_schedule an agent's
\* schedule_cron is non-null iff the agent has an active Schedule, and then
\* it is that Schedule's generated expression (so the sweep passes over an
\* agent whose Schedule is paused or deleted and considers one whose Schedule
\* is active).
C34_CronSetIffScheduleActive ==
    \A a \in Agents :
        /\ agents[a].schedule_cron # NoCron <=> ActiveSchedulesOf(a) # {}
        /\ \A s \in ActiveSchedulesOf(a) :
              agents[a].schedule_cron =
                  get_cron_expression(schedules[s].interval, schedules[s].publish_hour)

-----------------------------------------------------------------------------
(* tasks/celery_app.py beat_schedule: the sweep sent every                   *)
(* SCHEDULER_CHECK_INTERVAL_MINUTES, each run one period after the one       *)
(* before.                                                                   *)

\* Seconds from the first sweep to 10:00 of day 0, a fire time of every
\* template at hour 10.
BeatPhases == {0, 1, 120, 299}

InitBeat ==
    /\ now \in { JobEpoch - d : d \in BeatPhases }
    /\ agents \in [Agents -> [exists : {TRUE}, is_active : BOOLEAN,
                               schedule_cron : CronValues]]
    /\ queue = EmptyQueue
    /\ sweepLog = NoSweep
    /\ schedules = NoSchedules
    /\ posts = NoPosts
    /\ jobs = NoJobs
    /\ delayLog = NoDelays
    /\ faults = 0
    /\ ticks = NoTicks
    /\ reqs = NoReqs

\* The sweep of this period runs.
BeatSweep ==
    /\ sweepLog.runs = 0 \/ sweepLog.at # now
    /\ process_agent_schedules

\* One period passes after a sweep.
BeatPeriod ==
    /\ sweepLog.runs > 0 /\ sweepLog.at = now
    /\ sweepLog.runs < MaxSweeps
    /\ now' = now + interval_seconds
    /\ UNCHANGED <<tables, jobs, delayLog, faults, queue, sweepLog, ticks, reqs>>

NextBeat == BeatSweep \/ BeatPeriod

SpecBeat == InitBeat /\ [][NextBeat]_vars

\* The times of the sweeps that have run, one period apart.
SweepTimes ==
    { sweepLog.at - k * interval_seconds : k \in 0 .. (sweepLog.runs - 1) }

\* The fire times of cron whose window of one period holds a sweep that has
\* run: the sweep at the fire time itself, or the first one after it.
FiresSwept(cron) ==
    { f \in FireTimes(cron, now) :
        \E t \in SweepTimes : f <= t /\ t < f + interval_seconds }

\* C35: with sweeps exactly one poll window apart, every fire time of an
\* agent's cron expression makes the agent due in exactly one sweep: the jobs
\* dispatched for the agent are as many as the fire times the sweeps have
\* passed, also when a sweep runs at exactly the fire time.
C35_EveryFireTimeDueInExactlyOneSweep ==
    \A a \in ScheduledAgents :
        ~CronRaises(agents[a].schedule_cron) =>
            queue[a] = Cardinality(FiresSwept(agents[a].schedule_cron))

-----------------------------------------------------------------------------
(* The Posts of one submission, over all of its attempts.                    *)

\* C36: a job that has ended successfully has persisted exactly one Post over
\* all of its attempts (an attempt that has committed its Post is not counted
\* as failed and retried), so one submission never yields two Posts.
C36_SucceededJobHasExactlyOnePost ==
    \A j \in Jobs :
        /\ jobs[j].state = "succeeded" => Cardinality(PostsOfJob(j)) = 1
        /\ Cardinality(PostsOfJob(j)) <= 1

\* C37: for an agent with one active Schedule, after any interleaving of the
\* agent's jobs successful_posts and total_posts_generated equal the number
\* of attempts that completed successfully: no increment is lost when two
\* jobs read and write the Schedule row at the same time.
C37_NoCounterIncrementIsLost ==
    \A s \in ScheduleIds :
        (schedules[s].exists /\ ActiveSchedulesOf(schedules[s].agent_id) = {s}) =>
            /\ schedules[s].successful_posts
                  = Cardinality(SucceededJobsOf(schedules[s].agent_id))
            /\ schedules[s].total_posts_generated
                  = Cardinality(SucceededJobsOf(schedules[s].agent_id))

-----------------------------------------------------------------------------
(* api/posts.py and the publish timer: status and published_at.              *)

\* C38: in every reachable state a Post with status published has a non-null
\* published_at, after any sequence of update_post, schedule_post,
\* publish_post and publish timer ticks.
C38_PublishedPostHasPublishedAt ==
    \A p \in PostIds :
        posts[p].status = "published" => posts[p].published_at # NoTime

-----------------------------------------------------------------------------
(* The generation tasks on a worker that keeps running: every call into the  *)
(* Completion Service and the store returns or raises, so a task that can    *)
(* take a step takes one.                                                    *)

\* A step of the task of job j.
JobStepOf(j) == JobStep /\ jobs'[j] # jobs[j] /\ UNCHANGED <<delayLog, faults>>

NextWorker == \E j \in Jobs : JobStepOf(j)

FairWorker == \A j \in Jobs : WF_vars(JobStepOf(j))

SpecWorker == InitRetry /\ [][NextWorker]_vars /\ FairWorker

\* The states a job ends in: the task returned its Post, returned the
\* failure result for a missing or inactive agent, or was abandoned.
TerminalStates == {"succeeded", "skipped", "failed"}

\* C39: every submitted job eventually reaches a terminal outcome and stays
\* there: no message is left in the queue and no job is left running or
\* waiting for a retry; no job is retried more than max_retries times.
C39_EveryJobReachesATerminalOutcome ==
    /\ <>[](/\ queue = EmptyQueue
            /\ \A j \in Jobs : jobs[j].state \in TerminalStates \cup {"none"})
    /\ \A j \in Jobs :
          jobs[j].state \in {"running", "retry"} ~> jobs[j].state \in TerminalStates
    /\ [](\A j \in Jobs : /\ jobs[j].retries <= max_retries
                          /\ jobs[j].failures <= max_retries + 1)

\* The submitted job has ended, abandoned after its fourth failure; nothing
\* is queued.
C39_Witness_AbandonedAfterFourthFailure ==
    \E j \in Jobs :
        /\ queue = EmptyQueue
        /\ jobs[j].state = "failed"
        /\ jobs[j].retries = max_retries
        /\ jobs[j].failures = max_retries + 1

====
